---------------------------- MODULE Spec2Model ----------------------------
(***************************************************************************)
(* A model of core/jni/android_os_Debug.cpp: the smaps parser with its     *)
(* mapping classifier and per-heap totals (read_mapinfo, load_maps,        *)
(* android_os_Debug_getDirtyPagesPid) and the native heap dump             *)
(* (compareHeapRecords, dumpNativeHeap, android_os_Debug_dumpNativeHeap).  *)
(*                                                                         *)
(* Strings are sequences of one-character strings, so that the prefix and  *)
(* suffix tests of the classifier are computed and not assumed.  A line of *)
(* the smaps stream is a record of the fields the parser's sscanf calls    *)
(* and its "looks like a new mapping" test depend on.                      *)
(***************************************************************************)
EXTENDS Integers, Sequences, FiniteSets, TLC

(***************************************************************************)
(* The heap enumeration.                                                   *)
(***************************************************************************)
HEAP_UNKNOWN == 0
HEAP_DALVIK == 1
HEAP_NATIVE == 2
HEAP_DALVIK_OTHER == 3
HEAP_STACK == 4
HEAP_CURSOR == 5
HEAP_ASHMEM == 6
HEAP_UNKNOWN_DEV == 7
HEAP_SO == 8
HEAP_JAR == 9
HEAP_APK == 10
HEAP_TTF == 11
HEAP_DEX == 12
HEAP_OAT == 13
HEAP_ART == 14
HEAP_UNKNOWN_MAP == 15
HEAP_DALVIK_NORMAL == 16
HEAP_DALVIK_LARGE == 17
HEAP_DALVIK_LINEARALLOC == 18
HEAP_DALVIK_ACCOUNTING == 19
HEAP_DALVIK_CODE_CACHE == 20
NUM_HEAP == 21
NUM_EXCLUSIVE_HEAP == HEAP_UNKNOWN_MAP + 1
NUM_CORE_HEAP == HEAP_NATIVE + 1

Heaps == 0 .. (NUM_HEAP - 1)

(***************************************************************************)
(* The string literals of the classifier.                                  *)
(***************************************************************************)
\* "[heap]"
S_heap ==
    <<"[","h","e","a","p","]">>
\* "/dev/ashmem"
S_ashmem ==
    <<"/","d","e","v","/","a","s","h","m","e","m">>
\* "/dev/ashmem/dalvik-"
S_dalvik ==
    <<"/","d","e","v","/","a","s","h","m","e","m","/","d","a","l","v","i","k","-">>
\* "/dev/ashmem/dalvik-LinearAlloc"
S_LinearAlloc ==
    <<"/","d","e","v","/","a","s","h","m","e","m","/","d","a","l","v","i","k","-","L","i","n","e","a","r","A","l","l","o","c">>
\* "/dev/ashmem/dalvik-mark"
S_mark ==
    <<"/","d","e","v","/","a","s","h","m","e","m","/","d","a","l","v","i","k","-","m","a","r","k">>
\* "/dev/ashmem/dalvik-allocspace alloc space live-bitmap"
S_live_bitmap ==
    <<"/","d","e","v","/","a","s","h","m","e","m","/","d","a","l","v","i","k","-","a","l","l","o","c","s","p","a","c","e"," ","a","l","l","o","c"," ","s","p","a","c","e"," ","l","i","v","e","-","b","i","t","m","a","p">>
\* "/dev/ashmem/dalvik-allocspace alloc space mark-bitmap"
S_mark_bitmap ==
    <<"/","d","e","v","/","a","s","h","m","e","m","/","d","a","l","v","i","k","-","a","l","l","o","c","s","p","a","c","e"," ","a","l","l","o","c"," ","s","p","a","c","e"," ","m","a","r","k","-","b","i","t","m","a","p">>
\* "/dev/ashmem/dalvik-card table"
S_card_table ==
    <<"/","d","e","v","/","a","s","h","m","e","m","/","d","a","l","v","i","k","-","c","a","r","d"," ","t","a","b","l","e">>
\* "/dev/ashmem/dalvik-allocation stack"
S_allocation_stack ==
    <<"/","d","e","v","/","a","s","h","m","e","m","/","d","a","l","v","i","k","-","a","l","l","o","c","a","t","i","o","n"," ","s","t","a","c","k">>
\* "/dev/ashmem/dalvik-live stack"
S_live_stack ==
    <<"/","d","e","v","/","a","s","h","m","e","m","/","d","a","l","v","i","k","-","l","i","v","e"," ","s","t","a","c","k">>
\* "/dev/ashmem/dalvik-imagespace"
S_imagespace ==
    <<"/","d","e","v","/","a","s","h","m","e","m","/","d","a","l","v","i","k","-","i","m","a","g","e","s","p","a","c","e">>
\* "/dev/ashmem/dalvik-bitmap"
S_bitmap ==
    <<"/","d","e","v","/","a","s","h","m","e","m","/","d","a","l","v","i","k","-","b","i","t","m","a","p">>
\* "/dev/ashmem/dalvik-card-table"
S_card_table2 ==
    <<"/","d","e","v","/","a","s","h","m","e","m","/","d","a","l","v","i","k","-","c","a","r","d","-","t","a","b","l","e">>
\* "/dev/ashmem/dalvik-mark-stack"
S_mark_stack ==
    <<"/","d","e","v","/","a","s","h","m","e","m","/","d","a","l","v","i","k","-","m","a","r","k","-","s","t","a","c","k">>
\* "/dev/ashmem/dalvik-aux-structure"
S_aux_structure ==
    <<"/","d","e","v","/","a","s","h","m","e","m","/","d","a","l","v","i","k","-","a","u","x","-","s","t","r","u","c","t","u","r","e">>
\* "/dev/ashmem/dalvik-large"
S_large ==
    <<"/","d","e","v","/","a","s","h","m","e","m","/","d","a","l","v","i","k","-","l","a","r","g","e">>
\* "/dev/ashmem/dalvik-jit-code-cache"
S_jit_code_cache ==
    <<"/","d","e","v","/","a","s","h","m","e","m","/","d","a","l","v","i","k","-","j","i","t","-","c","o","d","e","-","c","a","c","h","e">>
\* "/dev/ashmem/CursorWindow"
S_CursorWindow ==
    <<"/","d","e","v","/","a","s","h","m","e","m","/","C","u","r","s","o","r","W","i","n","d","o","w">>
\* "/dev/ashmem/libc malloc"
S_libc_malloc ==
    <<"/","d","e","v","/","a","s","h","m","e","m","/","l","i","b","c"," ","m","a","l","l","o","c">>
\* "[anon:libc_malloc]"
S_anon_libc_malloc ==
    <<"[","a","n","o","n",":","l","i","b","c","_","m","a","l","l","o","c","]">>
\* "[stack"
S_stack ==
    <<"[","s","t","a","c","k">>
\* "/dev/"
S_dev ==
    <<"/","d","e","v","/">>
\* ".so"
S_so ==
    <<".","s","o">>
\* ".jar"
S_jar ==
    <<".","j","a","r">>
\* ".apk"
S_apk ==
    <<".","a","p","k">>
\* ".ttf"
S_ttf ==
    <<".","t","t","f">>
\* ".dex"
S_dex ==
    <<".","d","e","x">>
\* ".odex"
S_odex ==
    <<".","o","d","e","x">>
\* ".oat"
S_oat ==
    <<".","o","a","t">>
\* ".art"
S_art ==
    <<".","a","r","t">>
\* "[anon:"
S_anon ==
    <<"[","a","n","o","n",":">>

(***************************************************************************)
(* The C string functions the classifier uses.                             *)
(***************************************************************************)
Min(a, b) == IF a < b THEN a ELSE b

\* The first n characters of s (all of s when it is shorter).
Take(s, n) == SubSeq(s, 1, Min(n, Len(s)))

\* The last k characters of s: the string at s + strlen(s) - k, for k <= strlen(s).
Tail_(s, k) == SubSeq(s, Len(s) - k + 1, Len(s))

strlen(s) == Len(s)

\* 0 when the strings are equal, non-zero otherwise (the sign is never used).
strcmp(s1, s2) == IF s1 = s2 THEN 0 ELSE 1

\* 0 when the strings agree on their first n characters (or both end before).
strncmp(s1, s2, n) == IF Take(s1, n) = Take(s2, n) THEN 0 ELSE 1

\* The offset of the first occurrence of needle in hay, or -1 for NULL.
strstr(hay, needle) ==
    LET hits == { i \in 0 .. (Len(hay) - Len(needle)) :
                    SubSeq(hay, i + 1, i + Len(needle)) = needle }
    IN  IF hits = {} THEN -1 ELSE CHOOSE i \in hits : \A j \in hits : i <= j

(***************************************************************************)
(* The classifier: the if/else chain of read_mapinfo.  name is the mapping *)
(* name, start its start address, prevEnd and prevHeap the end address and *)
(* the heap of the block before.  The result starts from the values the    *)
(* loop resets to: HEAP_UNKNOWN, HEAP_UNKNOWN, not swappable.              *)
(***************************************************************************)
\* Mutant of Heap: every classification leaves is_swappable set.
Heap_Swappable(w, s, sw) == [whichHeap |-> w, subHeap |-> s, is_swappable |-> TRUE]

\* The outcome of a classification.
Heap(w, s, sw) == [whichHeap |-> w, subHeap |-> s, is_swappable |-> sw]

IsAccounting(name) ==
    \/ strstr(name, S_mark) = 0
    \/ strstr(name, S_live_bitmap) = 0
    \/ strstr(name, S_mark_bitmap) = 0
    \/ strstr(name, S_card_table) = 0
    \/ strstr(name, S_allocation_stack) = 0
    \/ strstr(name, S_live_stack) = 0
    \/ strstr(name, S_imagespace) = 0
    \/ strstr(name, S_bitmap) = 0
    \/ strstr(name, S_card_table2) = 0
    \/ strstr(name, S_mark_stack) = 0
    \/ strstr(name, S_aux_structure) = 0

ClassifyDalvik(name) ==
    IF strstr(name, S_LinearAlloc) = 0
      THEN Heap(HEAP_DALVIK_OTHER, HEAP_DALVIK_LINEARALLOC, FALSE)
    ELSE IF IsAccounting(name)
      THEN Heap(HEAP_DALVIK_OTHER, HEAP_DALVIK_ACCOUNTING, FALSE)
    ELSE IF strstr(name, S_large) = 0
      THEN Heap(HEAP_DALVIK, HEAP_DALVIK_LARGE, FALSE)
    ELSE IF strstr(name, S_jit_code_cache) = 0
      THEN Heap(HEAP_DALVIK_OTHER, HEAP_DALVIK_CODE_CACHE, FALSE)
    ELSE Heap(HEAP_DALVIK, HEAP_DALVIK_NORMAL, FALSE)

ClassifyAshmem(name) ==
    IF strncmp(name, S_dalvik, 19) = 0 THEN ClassifyDalvik(name)
    ELSE IF strncmp(name, S_CursorWindow, 24) = 0
      THEN Heap(HEAP_CURSOR, HEAP_UNKNOWN, FALSE)
    ELSE IF strncmp(name, S_libc_malloc, 23) = 0
      THEN Heap(HEAP_NATIVE, HEAP_UNKNOWN, FALSE)
    ELSE Heap(HEAP_ASHMEM, HEAP_UNKNOWN, FALSE)

\* Mutant of EndsLonger: nameLen >= k in place of nameLen > k.
EndsLonger_OrEqual(name, suffix, k) ==
    strlen(name) >= k /\ strcmp(Tail_(name, k), suffix) = 0

\* nameLen > k && strcmp(name + nameLen - k, suffix) == 0
EndsLonger(name, suffix, k) ==
    strlen(name) > k /\ strcmp(Tail_(name, k), suffix) = 0

Classify(name, start, prevEnd, prevHeap) ==
    LET nameLen == strlen(name)
    IN  IF strstr(name, S_heap) = 0 THEN Heap(HEAP_NATIVE, HEAP_UNKNOWN, FALSE)
        ELSE IF strncmp(name, S_ashmem, 11) = 0 THEN ClassifyAshmem(name)
        ELSE IF strncmp(name, S_anon_libc_malloc, 18) = 0
          THEN Heap(HEAP_NATIVE, HEAP_UNKNOWN, FALSE)
        ELSE IF strncmp(name, S_stack, 6) = 0
          THEN Heap(HEAP_STACK, HEAP_UNKNOWN, FALSE)
        ELSE IF strncmp(name, S_dev, 5) = 0
          THEN Heap(HEAP_UNKNOWN_DEV, HEAP_UNKNOWN, FALSE)
        ELSE IF EndsLonger(name, S_so, 3) THEN Heap(HEAP_SO, HEAP_UNKNOWN, TRUE)
        ELSE IF EndsLonger(name, S_jar, 4) THEN Heap(HEAP_JAR, HEAP_UNKNOWN, TRUE)
        ELSE IF EndsLonger(name, S_apk, 4) THEN Heap(HEAP_APK, HEAP_UNKNOWN, TRUE)
        ELSE IF EndsLonger(name, S_ttf, 4) THEN Heap(HEAP_TTF, HEAP_UNKNOWN, TRUE)
        ELSE IF EndsLonger(name, S_dex, 4) \/ EndsLonger(name, S_odex, 5)
          THEN Heap(HEAP_DEX, HEAP_UNKNOWN, TRUE)
        ELSE IF EndsLonger(name, S_oat, 4) THEN Heap(HEAP_OAT, HEAP_UNKNOWN, TRUE)
        ELSE IF EndsLonger(name, S_art, 4) THEN Heap(HEAP_ART, HEAP_UNKNOWN, TRUE)
        ELSE IF strncmp(name, S_anon, 6) = 0
          THEN Heap(HEAP_UNKNOWN, HEAP_UNKNOWN, FALSE)
        ELSE IF nameLen > 0 THEN Heap(HEAP_UNKNOWN_MAP, HEAP_UNKNOWN, FALSE)
        ELSE IF start = prevEnd /\ prevHeap = HEAP_SO
          THEN Heap(HEAP_SO, HEAP_UNKNOWN, FALSE)
        ELSE Heap(HEAP_UNKNOWN, HEAP_UNKNOWN, FALSE)

(***************************************************************************)
(* Machine words.  unsigned and int are 32 bits wide.  A word is held as   *)
(* its two's complement reading, an integer in -2^31 .. 2^31-1 (so the     *)
(* unsigned value u >= 2^31 is held as u - 2^32), and is taken apart into  *)
(* two 16-bit limbs <<hi, lo>> for unsigned arithmetic.  A limb pair whose *)
(* hi is 65536 or more is a value of 2^32 or more.                         *)
(***************************************************************************)
Limb == 65536
HalfLimb == 32768

\* The limbs of the unsigned value of word x.
ToLimbs(x) ==
    IF x >= 0 THEN <<x \div Limb, x % Limb>>
    ELSE LET d1 == (-1) - x
         IN  <<(Limb - 1) - (d1 \div Limb), (Limb - 1) - (d1 % Limb)>>

\* Carries propagated: lo brought back into 0 .. Limb-1.
Norm(v) == <<v[1] + (v[2] \div Limb), v[2] % Limb>>

\* The word (two's complement reading) of the low 32 bits of a limb pair.
ToWord(v) ==
    LET hi == v[1] % Limb
    IN  IF hi >= HalfLimb THEN (hi - Limb) * Limb + v[2] ELSE hi * Limb + v[2]

\* a + b and a - b on 32-bit words, wrapping.
Add32(a, b) ==
    LET x == ToLimbs(a)
        y == ToLimbs(b)
    IN  ToWord(Norm(<<x[1] + y[1], x[2] + y[2]>>))

Sub32(a, b) ==
    LET x == ToLimbs(a)
        y == ToLimbs(b)
    IN  ToWord(Norm(<<x[1] - y[1] + Limb, x[2] - y[2]>>))

\* Unsigned division of word a by the small non-zero unsigned k (k < 2^15).
UDiv32(a, k) ==
    LET x == ToLimbs(a)
    IN  ToWord(<<x[1] \div k, ((x[1] % k) * Limb + x[2]) \div k>>)

\* Unsigned a > 0 on a word.
UPos(a) == a # 0

(***************************************************************************)
(* float: a 24-bit significand, round to nearest, ties to even.  Only      *)
(* non-negative whole values occur here, held as limb pairs.               *)
(***************************************************************************)
RECURSIVE BitLen(_)
BitLen(n) == IF n = 0 THEN 0 ELSE 1 + BitLen(n \div 2)

RECURSIVE Pow2(_)
Pow2(n) == IF n = 0 THEN 1 ELSE 2 * Pow2(n - 1)

FloatRound(v) ==
    IF v[1] < 256 THEN v
    ELSE LET ulp == Pow2(BitLen(v[1]) - 8)
             rem == v[2] % ulp
             down == <<v[1], v[2] - rem>>
             up == Norm(<<v[1], v[2] - rem + ulp>>)
         IN  IF 2 * rem < ulp THEN down
             ELSE IF 2 * rem > ulp THEN up
             ELSE IF (v[2] \div ulp) % 2 = 0 THEN down ELSE up

\* (float) of an unsigned word.
ToFloat(x) == FloatRound(ToLimbs(x))

\* The float product of float f and the small unsigned word k, converted.
FMul(f, k) == FloatRound(Norm(<<f[1] * k, f[2] * k>>))

\* The float sum of float f and the small unsigned word k, converted.
FAdd(f, k) == FloatRound(Norm(<<f[1], f[2] + k>>))

(***************************************************************************)
(* The results of converting float f to unsigned.  In range the conversion *)
(* truncates; out of range (2^32 or more) it is undefined, and a build     *)
(* either saturates to 0xFFFFFFFF or keeps the low 32 bits.                *)
(***************************************************************************)
FloatToUnsigned(f) ==
    IF f[1] < Limb THEN {ToWord(f)} ELSE {-1, ToWord(f)}

(***************************************************************************)
(* swappable_pss of a completed block (read_mapinfo).  The subtraction and *)
(* the division are unsigned integer operations; only their quotient is    *)
(* converted to float.  The result is a set: the float to unsigned         *)
(* conversion is undefined when the value is out of range.                 *)
(***************************************************************************)
SwappablePss(is_swappable, pss, shared_clean, shared_dirty, private_clean, private_dirty) ==
    IF is_swappable /\ UPos(pss)
      THEN LET sharing_proportion ==
                 IF UPos(shared_clean) \/ UPos(shared_dirty)
                   THEN ToFloat(UDiv32(Sub32(Sub32(pss, private_clean), private_dirty),
                                       Add32(shared_clean, shared_dirty)))
                   ELSE <<0, 0>>
           IN  FloatToUnsigned(FAdd(FMul(sharing_proportion, shared_clean),
                                    private_clean))
      ELSE {0}

(***************************************************************************)
(* stats_t and the totals.                                                 *)
(***************************************************************************)
ZeroStat ==
    [pss |-> 0, swappablePss |-> 0, privateDirty |-> 0,
     sharedDirty |-> 0, privateClean |-> 0, sharedClean |-> 0]

\* Mutant of ZeroStats: the totals are not cleared and hold what the stack held.
ZeroStats_NotCleared == [h \in Heaps |-> [ZeroStat EXCEPT !.pss = 1]]

\* memset(&stats, 0, sizeof(stats))
ZeroStats == [h \in Heaps |-> ZeroStat]

\* The six metrics of one block, as a stats_t.
BlockMetrics(pss, swappable_pss, private_dirty, shared_dirty, private_clean, shared_clean) ==
    [pss |-> pss, swappablePss |-> swappable_pss, privateDirty |-> private_dirty,
     sharedDirty |-> shared_dirty, privateClean |-> private_clean,
     sharedClean |-> shared_clean]

\* stats[h].x += m.x for the six fields.
AddStat(s, m) ==
    [pss |-> Add32(s.pss, m.pss),
     swappablePss |-> Add32(s.swappablePss, m.swappablePss),
     privateDirty |-> Add32(s.privateDirty, m.privateDirty),
     sharedDirty |-> Add32(s.sharedDirty, m.sharedDirty),
     privateClean |-> Add32(s.privateClean, m.privateClean),
     sharedClean |-> Add32(s.sharedClean, m.sharedClean)]

Accumulate(st, h, m) == [st EXCEPT ![h] = AddStat(st[h], m)]

\* Mutant of HasSubHeap: the sub-heaps of HEAP_DALVIK_OTHER are left out.
HasSubHeap_DalvikOnly(heap) == heap = HEAP_DALVIK

\* Mutant of HasSubHeap: the test of the heap is left out.
HasSubHeap_Always(heap) == TRUE

\* Whether a block of heap whichHeap is also added to its subHeap.
HasSubHeap(heap) == heap = HEAP_DALVIK \/ heap = HEAP_DALVIK_OTHER

\* The totals after a block has completed: the tail of the parse loop.
BlockStats(st, skip, whichHeap, subHeap, m) ==
    IF skip THEN st
    ELSE LET s1 == Accumulate(st, whichHeap, m)
         IN  IF HasSubHeap(whichHeap) THEN Accumulate(s1, subHeap, m) ELSE s1

(***************************************************************************)
(* Lines of the smaps stream.  A line is one of                            *)
(*   map:  text that starts like a mapping header.  addrs is the number of *)
(*         leading fields "%lx-%lx" converts (2: both addresses; 1: only   *)
(*         the first; 0: none), tail whether the permission, offset,       *)
(*         device and inode fields after them convert, w the number of     *)
(*         characters of each address field, long whether the line has     *)
(*         more than 30 characters, name the text after the inode with its *)
(*         leading blanks skipped;                                         *)
(*   stat: "Key:    value kB";                                             *)
(*   text: any other line (for example "VmFlags: rd ex mr mw me").         *)
(***************************************************************************)
MapLine(w, addrs, tail, long, start, end, name) ==
    [t |-> "map", w |-> w, addrs |-> addrs, tail |-> tail, long |-> long,
     start |-> start, end |-> end, name |-> name, key |-> "", val |-> 0]

StatLine(key, val) ==
    [t |-> "stat", w |-> 0, addrs |-> 0, tail |-> FALSE, long |-> FALSE,
     start |-> 0, end |-> 0, name |-> <<>>, key |-> key, val |-> val]

TextLine ==
    [t |-> "text", w |-> 0, addrs |-> 0, tail |-> FALSE, long |-> FALSE,
     start |-> 0, end |-> 0, name |-> <<>>, key |-> "", val |-> 0]

\* A well-formed header as the kernel prints it; it has 39 characters or more.
Header(w, start, end, name) == MapLine(w, 2, TRUE, TRUE, start, end, name)

\* sscanf(line, "%lx-%lx %*s %*x %*x:%*x %*d%n", &start, &end, &name_pos):
\* the number of addresses assigned, and whether %n was reached.
ScanHeader(line) ==
    [n |-> IF line.t = "map" THEN line.addrs ELSE 0,
     pos |-> line.t = "map" /\ line.addrs = 2 /\ line.tail]

\* sscanf(line, "<key>: %d kB", &temp) == 1
ScanStat(line, key) == line.t = "stat" /\ line.key = key

\* Mutant of LooksLikeNewMapping: the dash is looked for one character late.
LooksLikeNewMapping_Off(line) == line.t = "map" /\ line.long /\ line.w = 9

\* strlen(line) > 30 && line[8] == '-' && line[17] == ' '
LooksLikeNewMapping(line) == line.t = "map" /\ line.long /\ line.w = 8

(***************************************************************************)
(* The state of the native heap dump.                                      *)
(***************************************************************************)
VARIABLES
    dpc,             \* where android_os_Debug_dumpNativeHeap stands
    malloc_leak,     \* what get_malloc_leak_info has to hand out
    info,            \* uint8_t* info: null or not, and the words it points to
    totalMemory, backtraceSize,
    infoSize,        \* the size of one record, in words
    recordCount,     \* overallSize / infoSize
    idx,             \* the index of the record loop
    report,          \* what has been written to fp, item by item
    fpOpen,          \* whether the report stream is open
    exception,       \* the exception pending in the JNI environment
    in,              \* FILE* in of dumpNativeHeap: "" before fopen, then "NULL" or "open"
    released,        \* history: the calls of free_malloc_leak_info
    slotsRead,       \* history: the most backtrace slots read of one record
    vrec1, vrec2,    \* the arguments of a comparator call
    result           \* what the comparator call returned

dumpVars == <<dpc, malloc_leak, info, totalMemory, backtraceSize, infoSize, recordCount,
              idx, report, fpOpen, exception, in, released, slotsRead, vrec1, vrec2, result>>

NullInfo == [null |-> TRUE, mem |-> <<>>]

NoException == [class |-> "", msg |-> ""]

\* The locals of the dump before it runs, for the leak information leak.
DumpStart(at, leak) ==
    /\ dpc = at
    /\ malloc_leak = leak
    /\ info = NullInfo
    /\ totalMemory = 0 /\ backtraceSize = 0 /\ infoSize = 0 /\ recordCount = 0
    /\ idx = 0
    /\ report = <<>>
    /\ fpOpen = FALSE
    /\ exception = NoException
    /\ in = ""
    /\ released = 0
    /\ slotsRead = 0
    /\ vrec1 = 0 /\ vrec2 = 0
    /\ result = 0

\* No heap dump is asked for.
NoDump ==
    DumpStart("idle", [info |-> NullInfo, infoSize |-> 0, overallSize |-> 0,
                       totalMemory |-> 0, backtraceSize |-> 0])

(***************************************************************************)
(* Mapping names used in the streams below.                                *)
(***************************************************************************)
\* "/system/lib/libfoo.so"
N_libfoo_so ==
    <<"/","s","y","s","t","e","m","/","l","i","b","/","l","i","b","f","o","o",".","s","o">>
\* "/dev/ashmem/dalvik-large-1"
N_dalvik_large_1 ==
    <<"/","d","e","v","/","a","s","h","m","e","m","/","d","a","l","v","i","k","-","l","a","r","g","e","-","1">>
\* "/dev/ashmem/dalvik-heap"
N_dalvik_heap ==
    <<"/","d","e","v","/","a","s","h","m","e","m","/","d","a","l","v","i","k","-","h","e","a","p">>

\* What the name pointer can point at when sscanf stopped before %n and left
\* name_pos as it was (uninitialised in the first block, stale afterwards).
StaleNames == {<<>>, N_libfoo_so, N_dalvik_large_1}

(***************************************************************************)
(* Bounds of the model.                                                    *)
(***************************************************************************)
\* The longest stream of the general specification, in lines.
MaxLines == 4
\* The largest value of a statistic line, in kB.
MaxKb == 2

\* All streams of at most n lines over the lines of set A.
Streams(A, n) == UNION { [1 .. k -> A] : k \in 0 .. n }

(***************************************************************************)
(* The state.                                                              *)
(***************************************************************************)
VARIABLES
    file,            \* /proc/<pid>/smaps: the lines of the stream
    openOk,          \* whether fopen of the stream succeeds
    fp,              \* the stream position: the number of lines read
    pc,              \* where getDirtyPagesPid stands
    line,            \* the line buffer
    skip, done, is_swappable,
    size, resident, pss, swappable_pss,
    uss,             \* getPssPid: the sum of the private pages
    shared_clean, shared_dirty, private_clean, private_dirty, referenced,
    start, end, prevEnd, name,
    whichHeap, subHeap, prevHeap,
    stats,           \* stats_t stats[_NUM_HEAP]
    hdr,             \* history: the line number of the header in the line buffer
    blocks,          \* history: the blocks completed so far
    object,          \* the core fields set in the MemoryInfo object
    otherArray       \* the otherStats array of the MemoryInfo object

flagVars == <<skip, done, is_swappable>>
metricVars == <<size, resident, pss, uss, shared_clean, shared_dirty,
             private_clean, private_dirty, referenced>>
addrVars == <<start, end, prevEnd, name>>
heapVars == <<whichHeap, subHeap, prevHeap>>
inVars == <<file, openOk>>
outVars == <<object, otherArray>>
mapVars == <<inVars, fp, pc, line, flagVars, metricVars, swappable_pss, addrVars, heapVars,
             stats, hdr, blocks, outVars>>
vars == <<mapVars, dumpVars>>

NoLine == TextLine

\* The state in which getDirtyPagesPid starts on stream f: stats zeroed, and the
\* locals of read_mapinfo as their declarations initialise them.
Start(f, ok) ==
    /\ file = f
    /\ openOk = ok
    /\ fp = 0
    /\ pc = "load_maps"
    /\ line = NoLine
    /\ skip = FALSE /\ done = FALSE /\ is_swappable = FALSE
    /\ size = 0 /\ resident = 0 /\ pss = 0 /\ swappable_pss = 0
    /\ uss = 0
    /\ shared_clean = 0 /\ shared_dirty = 0
    /\ private_clean = 0 /\ private_dirty = 0 /\ referenced = 0
    /\ start = 0 /\ end = 0 /\ prevEnd = 0 /\ name = <<>>
    /\ whichHeap = HEAP_UNKNOWN /\ subHeap = HEAP_UNKNOWN /\ prevHeap = HEAP_UNKNOWN
    /\ stats = ZeroStats
    /\ hdr = 0
    /\ blocks = <<>>
    /\ object = <<>>
    /\ otherArray = <<>>

(***************************************************************************)
(* load_maps: fopen; on failure the stats stay as they are.                *)
(***************************************************************************)
LoadMaps ==
    /\ pc = "load_maps"
    /\ pc' = IF openOk THEN "read_mapinfo" ELSE "fold"
    /\ UNCHANGED <<inVars, fp, line, flagVars, metricVars, swappable_pss, addrVars, heapVars,
                   stats, hdr, blocks, outVars>>
    /\ UNCHANGED dumpVars

\* Mutant of ReadFirstLine: the first line is looked at and left in the stream.
ReadFirstLine_Peek ==
    /\ pc = "read_mapinfo"
    /\ IF fp < Len(file)
         THEN /\ line' = file[fp + 1]
              /\ pc' = "header"
              /\ UNCHANGED fp
         ELSE /\ pc' = "fold"
              /\ UNCHANGED <<line, fp>>
    /\ UNCHANGED <<inVars, flagVars, metricVars, swappable_pss, addrVars, heapVars,
                   stats, hdr, blocks, outVars>>
    /\ UNCHANGED dumpVars

(***************************************************************************)
(* read_mapinfo: the first fgets; an empty stream returns at once.         *)
(***************************************************************************)
ReadFirstLine ==
    /\ pc = "read_mapinfo"
    /\ IF fp < Len(file)
         THEN /\ line' = file[fp + 1]
              /\ fp' = fp + 1
              /\ pc' = "header"
         ELSE /\ pc' = "fold"
              /\ UNCHANGED <<line, fp>>
    /\ UNCHANGED <<inVars, flagVars, metricVars, swappable_pss, addrVars, heapVars,
                   stats, hdr, blocks, outVars>>
    /\ UNCHANGED dumpVars

(***************************************************************************)
(* read_mapinfo: the head of the parse loop.  The previous heap and end    *)
(* are remembered, the header in the line buffer is scanned, and the       *)
(* mapping is classified.  When sscanf converts both addresses but stops   *)
(* before %n, name_pos keeps what it held and the name is whatever lies    *)
(* there.                                                                  *)
(***************************************************************************)
ParseHeader ==
    /\ pc = "header"
    /\ prevHeap' = whichHeap
    /\ prevEnd' = end
    /\ LET r == ScanHeader(line)
       IN  IF r.n # 2
             THEN /\ skip' = TRUE
                  /\ start' = IF r.n = 1 THEN line.start ELSE start
                  /\ whichHeap' = HEAP_UNKNOWN
                  /\ subHeap' = HEAP_UNKNOWN
                  /\ is_swappable' = FALSE
                  /\ UNCHANGED <<end, name>>
             ELSE /\ skip' = FALSE
                  /\ start' = line.start
                  /\ end' = line.end
                  /\ name' \in (IF r.pos THEN {line.name} ELSE StaleNames)
                  /\ LET c == Classify(name', line.start, end, whichHeap)
                     IN  /\ whichHeap' = c.whichHeap
                         /\ subHeap' = c.subHeap
                         /\ is_swappable' = c.is_swappable
    /\ hdr' = fp
    /\ pc' = "stats"
    /\ UNCHANGED <<inVars, fp, line, done, metricVars, swappable_pss, stats, blocks, outVars>>
    /\ UNCHANGED dumpVars

(***************************************************************************)
(* read_mapinfo: one turn of the inner loop.  fgets reads the next line;   *)
(* at end of stream the block is the last one.  A statistic line sets its  *)
(* metric, a line that looks like a new mapping ends the block and stays   *)
(* in the line buffer, any other line is passed over.                      *)
(***************************************************************************)
StatKeys ==
    {"Size", "Rss", "Pss", "Shared_Clean", "Shared_Dirty",
     "Private_Clean", "Private_Dirty", "Referenced"}

\* One of the eight sscanf calls of the inner loop converts the line.
IsStat(line_) == \E k \in StatKeys : ScanStat(line_, k)

\* The new value of the metric of key: temp when its sscanf converts the line.
SetIf(line_, key, old) == IF ScanStat(line_, key) THEN line_.val ELSE old

ReadLine ==
    /\ pc = "stats"
    /\ IF fp = Len(file)
         THEN /\ done' = TRUE
              /\ pc' = "block"
              /\ UNCHANGED <<fp, line, metricVars>>
         ELSE LET l == file[fp + 1]
              IN  /\ fp' = fp + 1
                  /\ line' = l
                  /\ size' = SetIf(l, "Size", size)
                  /\ resident' = SetIf(l, "Rss", resident)
                  /\ pss' = SetIf(l, "Pss", pss)
                  /\ shared_clean' = SetIf(l, "Shared_Clean", shared_clean)
                  /\ shared_dirty' = SetIf(l, "Shared_Dirty", shared_dirty)
                  /\ private_clean' = SetIf(l, "Private_Clean", private_clean)
                  /\ private_dirty' = SetIf(l, "Private_Dirty", private_dirty)
                  /\ referenced' = SetIf(l, "Referenced", referenced)
                  /\ uss' = uss
                  /\ pc' = IF IsStat(l) THEN "stats"
                           ELSE IF LooksLikeNewMapping(l) THEN "block"
                           ELSE "stats"
                  /\ done' = done
    /\ UNCHANGED <<inVars, skip, is_swappable, swappable_pss, addrVars, heapVars,
                   stats, hdr, blocks, outVars>>
    /\ UNCHANGED dumpVars

(***************************************************************************)
(* read_mapinfo: the tail of the parse loop.  Unless the block is skipped, *)
(* swappable_pss is computed and the six metrics are added to the totals.  *)
(***************************************************************************)
CompleteBlock ==
    /\ pc = "block"
    /\ swappable_pss' \in
          (IF skip THEN {swappable_pss}
           ELSE SwappablePss(is_swappable, pss, shared_clean, shared_dirty,
                             private_clean, private_dirty))
    /\ LET m == BlockMetrics(pss, swappable_pss', private_dirty, shared_dirty,
                             private_clean, shared_clean)
       IN  /\ stats' = BlockStats(stats, skip, whichHeap, subHeap, m)
           /\ blocks' = Append(blocks,
                  [hdr |-> hdr, skip |-> skip, whichHeap |-> whichHeap,
                   subHeap |-> subHeap, is_swappable |-> is_swappable,
                   m |-> m, eof |-> done])
    /\ pc' = IF done THEN "fold" ELSE "header"
    /\ UNCHANGED <<inVars, fp, line, flagVars, metricVars, addrVars, heapVars, hdr, outVars>>
    /\ UNCHANGED dumpVars

(***************************************************************************)
(* getDirtyPagesPid after load_maps: the other heaps are added into        *)
(* stats[HEAP_UNKNOWN], then the core heaps are stored into the object and *)
(* the other heaps and the sub-heaps into its otherStats array.            *)
(***************************************************************************)
RECURSIVE FoldFrom(_, _, _)
FoldFrom(st, i, n) ==
    IF i >= n THEN st
    ELSE FoldFrom(Accumulate(st, HEAP_UNKNOWN, st[i]), i + 1, n)

\* Mutant of FoldOther: the loop runs to _NUM_HEAP and takes in the sub-heaps.
FoldOther_AllHeaps(st) == FoldFrom(st, NUM_CORE_HEAP, NUM_HEAP)

\* for (i = _NUM_CORE_HEAP; i < _NUM_EXCLUSIVE_HEAP; i++) stats[HEAP_UNKNOWN] += stats[i]
FoldOther(st) == FoldFrom(st, NUM_CORE_HEAP, NUM_EXCLUSIVE_HEAP)

\* Field k (0..5) of a stats_t, in the order the array is written.
StatField(s, k) ==
    CASE k = 0 -> s.pss
      [] k = 1 -> s.swappablePss
      [] k = 2 -> s.privateDirty
      [] k = 3 -> s.sharedDirty
      [] k = 4 -> s.privateClean
      [] k = 5 -> s.sharedClean

\* The otherStats array as the second loop fills it (otherArray[j++] = ...).
OtherStats(st) ==
    [j \in 1 .. ((NUM_HEAP - NUM_CORE_HEAP) * 6) |->
        StatField(st[NUM_CORE_HEAP + ((j - 1) \div 6)], (j - 1) % 6)]

Fold ==
    /\ pc = "fold"
    /\ stats' = FoldOther(stats)
    /\ pc' = "report"
    /\ UNCHANGED <<inVars, fp, line, flagVars, metricVars, swappable_pss, addrVars,
                   heapVars, hdr, blocks, outVars>>
    /\ UNCHANGED dumpVars

\* GetPrimitiveArrayCritical may return NULL; the core fields are set by then.
Report ==
    /\ pc = "report"
    /\ object' = [i \in 0 .. (NUM_CORE_HEAP - 1) |-> stats[i]]
    /\ \E gotArray \in BOOLEAN :
          /\ otherArray' = IF gotArray THEN OtherStats(stats) ELSE otherArray
          /\ pc' = IF gotArray THEN "done" ELSE "done_no_array"
    /\ UNCHANGED <<inVars, fp, line, flagVars, metricVars, swappable_pss, addrVars,
                   heapVars, stats, hdr, blocks>>
    /\ UNCHANGED dumpVars

(***************************************************************************)
(* The streams of the general specification: every stream of at most       *)
(* MaxLines lines over these lines.                                        *)
(***************************************************************************)
\* 10000000-10001000 r-xp 00000000 b3:05 1234   /system/lib/libfoo.so
hSo == Header(8, 1, 2, N_libfoo_so)
\* 40000000-40100000 rw-p 00000000 00:04 5678   /dev/ashmem/dalvik-large-1
hDalvik == Header(8, 3, 4, N_dalvik_large_1)
\* 00a00000-00a21000 rw-p 00000000 00:00 0   [heap]
hHeap == Header(8, 5, 6, S_heap)
\* 7f0000000000-7f0000021000 rw-p 00000000 00:00 0   [heap]
hWide == Header(12, 5, 6, S_heap)
\* A line with the shape of a header whose addresses are no hex numbers.
hBad == MapLine(8, 0, FALSE, TRUE, 0, 0, <<>>)
\* A header cut after its addresses: 50000000-50001000 followed by other text.
hCut == MapLine(8, 2, FALSE, TRUE, 7, 8, <<>>)

Lines ==
    {hSo, hDalvik, hWide, hBad, hCut, TextLine,
     StatLine("Pss", 1), StatLine("Pss", 2)}

Init ==
    /\ \/ \E f \in Streams(Lines, MaxLines) : Start(f, TRUE)
       \/ Start(<<>>, FALSE)
    /\ NoDump

Next ==
    \/ LoadMaps
    \/ ReadFirstLine
    \/ ParseHeader
    \/ ReadLine
    \/ CompleteBlock
    \/ Fold
    \/ Report

Spec == Init /\ [][Next]_vars

\* load_maps and read_mapinfo run in one sequential thread: from every position
\* before the return of read_mapinfo the next step is taken.  Each of their
\* steps can be taken at its position and moves the position or reads a line,
\* so the steps are named by the positions and the stream position alone.
SpecLive ==
    Spec /\ WF_<<pc, fp>>(/\ pc \in {"load_maps", "read_mapinfo", "header", "stats", "block"}
                          /\ pc' \in {"read_mapinfo", "header", "stats", "block", "fold"}
                          /\ fp' \in {fp, fp + 1})

(***************************************************************************)
(* The streams of the metrics specification: one block that carries the    *)
(* five accumulated statistics, each from 0 to MaxKb, in the order the     *)
(* kernel prints them, after nothing or after a block that has left its    *)
(* own values behind.                                                      *)
(***************************************************************************)
StatBlock(h, v) ==
    <<h, StatLine("Size", 4), StatLine("Rss", 4), StatLine("Pss", v[1]),
      StatLine("Shared_Clean", v[2]), StatLine("Shared_Dirty", v[3]),
      StatLine("Private_Clean", v[4]), StatLine("Private_Dirty", v[5]),
      StatLine("Referenced", 4)>>

Preludes ==
    {<<>>,
     <<hDalvik, StatLine("Pss", 1), StatLine("Private_Dirty", 1)>>,
     <<hBad, StatLine("Pss", 2), StatLine("Shared_Clean", 1)>>}

MetricStreams ==
    { pre \o StatBlock(h, v) :
        pre \in Preludes, h \in {hSo, hDalvik, hHeap},
        v \in [1 .. 5 -> 0 .. MaxKb] }

InitMetrics == (\E f \in MetricStreams : Start(f, TRUE)) /\ NoDump

SpecMetrics == InitMetrics /\ [][Next]_vars

(***************************************************************************)
(* The streams of the names specification: one well-formed header whose    *)
(* name is put together from the classifier's own literals, alone or after *)
(* a shared object that ends where the header starts, or elsewhere.        *)
(***************************************************************************)
X == <<"x">>

NamePrefixes ==
    {<<>>, S_heap, S_ashmem, S_dalvik, S_LinearAlloc, S_mark, S_live_bitmap,
     S_mark_bitmap, S_card_table, S_allocation_stack, S_live_stack,
     S_imagespace, S_bitmap, S_card_table2, S_mark_stack, S_aux_structure,
     S_large, S_jit_code_cache, S_CursorWindow, S_libc_malloc,
     S_anon_libc_malloc, S_stack, S_dev, S_anon}

NameSuffixes ==
    {<<>>, S_so, S_jar, S_apk, S_ttf, S_dex, S_odex, S_oat, S_art}

Names == { p \o m \o s : p \in NamePrefixes, m \in {<<>>, X}, s \in NameSuffixes }

NameStreams ==
    { pre \o <<Header(8, a, a + 1, n)>> :
        pre \in {<<>>, <<hSo>>, <<hSo, StatLine("Pss", 1)>>},
        a \in {2, 3}, n \in Names }

InitNames == (\E f \in NameStreams : Start(f, TRUE)) /\ NoDump

SpecNames == InitNames /\ [][Next]_vars

(***************************************************************************)
(* The streams of the adjacency specification: headers only, a shared      *)
(* object, unnamed mappings that start where the mapping before them ends  *)
(* or elsewhere, and headers that fail the pattern.                        *)
(***************************************************************************)
hAnon2 == Header(8, 2, 3, <<>>)

hAnon3 == Header(8, 3, 4, <<>>)

\* Both addresses of a shared object's header, and nothing that converts after them.
hCutSo == MapLine(8, 2, FALSE, TRUE, 1, 2, <<>>)

AdjacentLines == {hSo, hAnon2, hAnon3, hBad, hCutSo}

InitAdjacent == (\E f \in Streams(AdjacentLines, MaxLines) : Start(f, TRUE)) /\ NoDump

SpecAdjacent == InitAdjacent /\ [][Next]_vars

(***************************************************************************)
(* The streams of the specification of the mappings that are not           *)
(* swappable: one block of an unnamed mapping or of [heap] that carries    *)
(* the five accumulated statistics, each from 0 to MaxKb, alone or after a *)
(* shared object that ends at 2 and has added a swappable pss of its own.  *)
(***************************************************************************)
UnswappableStreams ==
    { pre \o StatBlock(h, v) :
        pre \in {<<>>, <<hSo, StatLine("Pss", 2), StatLine("Private_Clean", 1)>>},
        h \in {hAnon2, hAnon3, hHeap},
        v \in [1 .. 5 -> 0 .. MaxKb] }

InitUnswappable == (\E f \in UnswappableStreams : Start(f, TRUE)) /\ NoDump

SpecUnswappable == InitUnswappable /\ [][Next]_vars

(***************************************************************************)
(* The native heap dump.  size_t and intptr_t are one 32-bit word.  The    *)
(* leak information is an array of records, each infoSize words: size,     *)
(* allocations and the backtrace slots.  The array is held as the sequence *)
(* of its words, and a record pointer as the index of the record's first   *)
(* word.                                                                   *)
(***************************************************************************)
SIZE_FLAG_ZYGOTE_CHILD == (-2147483647) - 1

BACKTRACE_SIZE == 32

\* Unsigned a < b on words.
ULess(a, b) ==
    LET x == ToLimbs(a)
        y == ToLimbs(b)
    IN  x[1] < y[1] \/ (x[1] = y[1] /\ x[2] < y[2])

\* (size & SIZE_FLAG_ZYGOTE_CHILD) != 0
ZygoteChild(sz) == ToLimbs(sz)[1] >= ToLimbs(SIZE_FLAG_ZYGOTE_CHILD)[1]

\* size & ~SIZE_FLAG_ZYGOTE_CHILD
ClearFlag(sz) ==
    LET x == ToLimbs(sz)
    IN  ToWord(<<x[1] % ToLimbs(SIZE_FLAG_ZYGOTE_CHILD)[1], x[2]>>)

\* size | SIZE_FLAG_ZYGOTE_CHILD, for a size below 2^31
SetFlag(sz) == sz + SIZE_FLAG_ZYGOTE_CHILD

\* What a read outside the array may give.
Wild == {0, 1}

\* The values a read of word a of the array may give.
ReadWord(mem, a) == IF a \in DOMAIN mem THEN {mem[a]} ELSE Wild

\* Mutant of SlotOrder: the first record is put first whenever the addresses differ.
SlotOrder_FirstLess(addr1, addr2) == -1

\* Mutant of SlotOrder: the larger address first.
SlotOrder_Descending(addr1, addr2) == IF addr1 < addr2 THEN 1 ELSE -1

\* The comparator's verdict on two different addresses.
SlotOrder(addr1, addr2) == IF addr1 < addr2 THEN -1 ELSE 1

\* The backtrace loop of the comparator from index i on: the results it may
\* return (r), each with the number of slots it has read of either record (n).
RECURSIVE CompareBacktraces(_, _, _, _)
CompareBacktraces(mem, bt1, bt2, i) ==
    IF i >= BACKTRACE_SIZE THEN {[r |-> 0, n |-> i]}
    ELSE UNION { IF a[1] = a[2]
                   THEN IF a[1] = 0
                          THEN {[r |-> 0, n |-> i + 1]}
                          ELSE CompareBacktraces(mem, bt1, bt2, i + 1)
                   ELSE {[r |-> SlotOrder(a[1], a[2]), n |-> i + 1]} :
                 a \in ReadWord(mem, bt1 + i) \X ReadWord(mem, bt2 + i) }

compareHeapRecords(mem, rec1, rec2) ==
    LET size1 == mem[rec1]
        size2 == mem[rec2]
    IN  IF ULess(size1, size2) THEN {[r |-> 1, n |-> 0]}
        ELSE IF ULess(size2, size1) THEN {[r |-> -1, n |-> 0]}
        ELSE CompareBacktraces(mem, rec1 + 2, rec2 + 2, 0)

\* The pointer to record k (from 0) of an array of records of stride words.
RecordAt(k, stride) == k * stride + 1

Perms(n) == {p \in [0 .. (n - 1) -> 0 .. (n - 1)] :
                \A i, j \in 0 .. (n - 1) : i # j => p[i] # p[j]}

\* The array with its records in the order p.
Permute(mem, p, stride) ==
    [k \in 1 .. Len(mem) |->
        mem[RecordAt(p[(k - 1) \div stride], stride) + ((k - 1) % stride)]]

\* The comparator calls that qsort may make on the array: on two of its records.
Calls(mem, n, stride) ==
    UNION {compareHeapRecords(mem, RecordAt(ij[1], stride), RecordAt(ij[2], stride)) :
             ij \in {c \in (0 .. (n - 1)) \X (0 .. (n - 1)) : c[1] # c[2]}}

\* What qsort may leave in the array.  While every comparator call stays in the
\* backtraces of the two records it is given, the comparator is a function of
\* the records and qsort leaves them in an order it accepts, equal records in
\* any order.  A call that reads past a record reads its neighbour or past the
\* array, the comparator is no ordering of the records, and the order qsort
\* leaves is any.
qsort(mem, n, stride) ==
    IF \A c \in Calls(mem, n, stride) : c.n <= stride - 2
      THEN {Permute(mem, p, stride) : p \in
              {q \in Perms(n) :
                 \A i, j \in 0 .. (n - 1) :
                    i < j => \A c \in compareHeapRecords(mem, RecordAt(q[i], stride),
                                                         RecordAt(q[j], stride)) :
                                c.r <= 0}}
      ELSE {Permute(mem, p, stride) : p \in Perms(n)}

\* The most slots a comparator call of qsort reads of one record.
SortReads(mem, n, stride) ==
    IF n < 2 THEN 0
    ELSE CHOOSE m \in {c.n : c \in Calls(mem, n, stride)} :
           \A c \in Calls(mem, n, stride) : c.n <= m

(***************************************************************************)
(* The report, item by item: k is the kind of the item and v its numbers.  *)
(***************************************************************************)
Item(k, v) == [k |-> k, v |-> v]

\* Mutant of Guidance: the END line is written after the guidance.
Guidance_WithEnd == <<Item("not available", <<>>), Item("setprop", <<>>),
                      Item("stop", <<>>), Item("start", <<>>), Item("END", <<>>)>>

\* The four lines written when there is no leak information.
Guidance == <<Item("not available", <<>>), Item("setprop", <<>>),
              Item("stop", <<>>), Item("start", <<>>)>>

\* The header of the report up to the blank line before the records.
ReportHead(total, count, capacity) ==
    <<Item("Android Native Heap Dump v1.0", <<>>), Item("Total memory", <<total>>),
      Item("Allocation records", <<count>>)>>
    \o (IF capacity # BACKTRACE_SIZE
          THEN <<Item("WARNING", <<capacity, BACKTRACE_SIZE>>)>>
          ELSE <<>>)
    \o <<Item("", <<>>)>>

\* The addresses printed of a backtrace, from slot bt on.
RECURSIVE PrintedBacktrace(_, _, _, _)
PrintedBacktrace(mem, backtrace, bt, capacity) ==
    IF bt >= capacity \/ mem[backtrace + bt] = 0 THEN <<>>
    ELSE <<mem[backtrace + bt]>> \o PrintedBacktrace(mem, backtrace, bt + 1, capacity)

\* The line of the record at ptr.
RecordLine(mem, ptr, capacity) ==
    LET sz == mem[ptr]
        allocations == mem[ptr + 1]
    IN  Item("z", <<IF ZygoteChild(sz) THEN 1 ELSE 0, ClearFlag(sz), allocations>>
                  \o PrintedBacktrace(mem, ptr + 2, 0, capacity))

\* The slots the record loop reads of the record at ptr.
PrintReads(mem, ptr, capacity) ==
    LET printed == Len(PrintedBacktrace(mem, ptr + 2, 0, capacity))
    IN  IF printed < capacity THEN printed + 1 ELSE printed

\* Mutant of ReportTail: the END line is left out.
ReportTail_NoEnd(opened, listing) ==
    <<Item("MAPS", <<>>)>>
    \o (IF opened
          THEN [i \in 1 .. Len(listing) |-> Item("maps", <<listing[i]>>)]
          ELSE <<Item("Could not open", <<>>)>>)

\* The end of the report, after the records: the mapping listing and the END
\* line, or the line that says the listing could not be opened.
ReportTail(opened, listing) ==
    <<Item("MAPS", <<>>)>>
    \o (IF opened
          THEN [i \in 1 .. Len(listing) |-> Item("maps", <<listing[i]>>)]
               \o <<Item("END", <<>>)>>
          ELSE <<Item("Could not open", <<>>)>>)

Max(a, b) == IF a > b THEN a ELSE b

(***************************************************************************)
(* android_os_Debug_dumpNativeHeap and dumpNativeHeap, step by step.       *)
(***************************************************************************)
\* Mutant of OpenOutput: the failure is raised and the dump goes on.
OpenOutput_NoReturn ==
    /\ dpc = "dumpNativeHeap"
    /\ \E fd \in {"null", "invalid", "dup", "fdopen", "ok"} :
          /\ exception' = IF fd = "ok" THEN NoException
                                       ELSE [class |-> "RuntimeException", msg |-> fd]
          /\ fpOpen' = (fd = "ok")
          /\ dpc' = "get_malloc_leak_info"
    /\ UNCHANGED <<in, malloc_leak, info, totalMemory, backtraceSize, infoSize, recordCount,
                   idx, report, released, slotsRead, vrec1, vrec2, result>>
    /\ UNCHANGED mapVars

\* The checks of the file descriptor and the opening of the report stream.
OpenOutput ==
    /\ dpc = "dumpNativeHeap"
    /\ \E fd \in {"null", "invalid", "dup", "fdopen", "ok"} :
          /\ exception' =
                CASE fd = "null" -> [class |-> "NullPointerException", msg |-> "fd == null"]
                  [] fd = "invalid" -> [class |-> "RuntimeException",
                                        msg |-> "Invalid file descriptor"]
                  [] fd = "dup" -> [class |-> "RuntimeException", msg |-> "dup() failed"]
                  [] fd = "fdopen" -> [class |-> "RuntimeException", msg |-> "fdopen() failed"]
                  [] fd = "ok" -> NoException
          /\ fpOpen' = (fd = "ok")
          /\ dpc' = IF fd = "ok" THEN "get_malloc_leak_info" ELSE "returned"
    /\ UNCHANGED <<in, malloc_leak, info, totalMemory, backtraceSize, infoSize, recordCount,
                   idx, report, released, slotsRead, vrec1, vrec2, result>>
    /\ UNCHANGED mapVars

\* get_malloc_leak_info, and the guidance when it hands out nothing.
GetLeakInfo ==
    /\ dpc = "get_malloc_leak_info"
    /\ info' = malloc_leak.info
    /\ totalMemory' = malloc_leak.totalMemory
    /\ backtraceSize' = malloc_leak.backtraceSize
    /\ infoSize' = malloc_leak.infoSize
    /\ IF malloc_leak.info.null
         THEN /\ report' = report \o Guidance
              /\ dpc' = "fclose"
              /\ UNCHANGED recordCount
         ELSE /\ recordCount' = malloc_leak.overallSize \div malloc_leak.infoSize
              /\ dpc' = "header"
              /\ UNCHANGED report
    /\ UNCHANGED <<in, malloc_leak, idx, fpOpen, exception, released, slotsRead,
                   vrec1, vrec2, result>>
    /\ UNCHANGED mapVars

WriteHeader ==
    /\ dpc = "header"
    /\ report' = report \o ReportHead(totalMemory, recordCount, backtraceSize)
    /\ dpc' = "qsort"
    /\ UNCHANGED <<in, malloc_leak, info, totalMemory, backtraceSize, infoSize, recordCount,
                   idx, fpOpen, exception, released, slotsRead, vrec1, vrec2, result>>
    /\ UNCHANGED mapVars

SortRecords ==
    /\ dpc = "qsort"
    /\ \E mem \in qsort(info.mem, recordCount, infoSize) :
          info' = [info EXCEPT !.mem = mem]
    /\ slotsRead' = Max(slotsRead, SortReads(info.mem, recordCount, infoSize))
    /\ idx' = 0
    /\ dpc' = "records"
    /\ UNCHANGED <<in, malloc_leak, totalMemory, backtraceSize, infoSize, recordCount,
                   report, fpOpen, exception, released, vrec1, vrec2, result>>
    /\ UNCHANGED mapVars

\* One turn of the record loop.
WriteRecord ==
    /\ dpc = "records"
    /\ idx < recordCount
    /\ report' = Append(report, RecordLine(info.mem, RecordAt(idx, infoSize), backtraceSize))
    /\ slotsRead' = Max(slotsRead, PrintReads(info.mem, RecordAt(idx, infoSize), backtraceSize))
    /\ idx' = idx + 1
    /\ UNCHANGED <<in, dpc, malloc_leak, info, totalMemory, backtraceSize, infoSize,
                   recordCount, fpOpen, exception, released, vrec1, vrec2, result>>
    /\ UNCHANGED mapVars

\* Mutant of FreeLeakInfo: the buffer is released a second time.
FreeLeakInfo_Twice ==
    /\ dpc = "records"
    /\ idx >= recordCount
    /\ released' = released + 2
    /\ dpc' = "maps"
    /\ UNCHANGED <<in, malloc_leak, info, totalMemory, backtraceSize, infoSize, recordCount,
                   idx, report, fpOpen, exception, slotsRead, vrec1, vrec2, result>>
    /\ UNCHANGED mapVars

\* free_malloc_leak_info(info), once the record loop has ended.
FreeLeakInfo ==
    /\ dpc = "records"
    /\ idx >= recordCount
    /\ released' = released + 1
    /\ dpc' = "maps"
    /\ UNCHANGED <<in, malloc_leak, info, totalMemory, backtraceSize, infoSize, recordCount,
                   idx, report, fpOpen, exception, slotsRead, vrec1, vrec2, result>>
    /\ UNCHANGED mapVars

\* The MAPS line, the copy of /proc/self/maps and the END line.
WriteMaps ==
    /\ dpc = "maps"
    /\ \E opened \in BOOLEAN, listing \in {<<>>, <<1>>, <<1, 2>>} :
          /\ opened \/ listing = <<>>
          /\ report' = report \o ReportTail(opened, listing)
          /\ in' = IF opened THEN "open" ELSE "NULL"
    /\ dpc' = "fclose"
    /\ UNCHANGED <<malloc_leak, info, totalMemory, backtraceSize, infoSize, recordCount,
                   idx, fpOpen, exception, released, slotsRead, vrec1, vrec2, result>>
    /\ UNCHANGED mapVars

CloseOutput ==
    /\ dpc = "fclose"
    /\ fpOpen' = FALSE
    /\ dpc' = "returned"
    /\ UNCHANGED <<in, malloc_leak, info, totalMemory, backtraceSize, infoSize, recordCount,
                   idx, report, exception, released, slotsRead, vrec1, vrec2, result>>
    /\ UNCHANGED mapVars

\* One call of the comparator, on the records at vrec1 and vrec2.
CompareRecords ==
    /\ dpc = "compareHeapRecords"
    /\ \E c \in compareHeapRecords(info.mem, vrec1, vrec2) :
          /\ result' = c.r
          /\ slotsRead' = c.n
    /\ dpc' = "compared"
    /\ UNCHANGED <<in, malloc_leak, info, totalMemory, backtraceSize, infoSize, recordCount,
                   idx, report, fpOpen, exception, released, vrec1, vrec2>>
    /\ UNCHANGED mapVars

(***************************************************************************)
(* The leak information the dump and the comparator are run on.            *)
(***************************************************************************)
MaxDepth == 2

MaxRecords == 2

\* The addresses of the backtraces; the negative one is an address of 2^31 or more.
Addrs == {-1, 0, 1, 2}

\* A record: its size word, its count, and its backtrace: the slots given, and
\* fill in every slot after them.
Record(sz, allocations, backtrace, fill) ==
    [size |-> sz, allocations |-> allocations, backtrace |-> backtrace, fill |-> fill]

\* The words of record r in an array whose backtraces have capacity slots.
RecordWords(r, capacity) ==
    <<r.size, r.allocations>>
    \o [i \in 1 .. capacity |->
          IF i <= Len(r.backtrace) THEN r.backtrace[i] ELSE r.fill]

RECURSIVE Layout(_, _)
Layout(recs, capacity) ==
    IF recs = <<>> THEN <<>>
    ELSE RecordWords(Head(recs), capacity) \o Layout(Tail(recs), capacity)

RECURSIVE TotalOf(_)
TotalOf(recs) ==
    IF recs = <<>> THEN 0
    ELSE ClearFlag(Head(recs).size) * Head(recs).allocations + TotalOf(Tail(recs))

\* What get_malloc_leak_info hands out for the records recs.
LeakInfo(recs, capacity) ==
    [info |-> [null |-> FALSE, mem |-> Layout(recs, capacity)],
     infoSize |-> 2 + capacity,
     overallSize |-> Len(recs) * (2 + capacity),
     totalMemory |-> TotalOf(recs),
     backtraceSize |-> capacity]

NoLeakInfo ==
    [info |-> NullInfo, infoSize |-> 0, overallSize |-> 0, totalMemory |-> 0,
     backtraceSize |-> 0]

\* The records of the dumps: two sizes, one of them of a zygote child, and two
\* backtraces, one a prefix of the other.
DumpRecords ==
    {Record(sz, Len(bt), bt, 0) :
       sz \in {2, SetFlag(1)}, bt \in {<<1>>, [i \in 1 .. MaxDepth |-> i]}}

InitDump ==
    /\ Start(<<>>, FALSE)
    /\ \/ DumpStart("dumpNativeHeap", NoLeakInfo)
       \/ \E recs \in Streams(DumpRecords, MaxRecords), capacity \in {BACKTRACE_SIZE, MaxDepth} :
             /\ recs # <<>>
             /\ DumpStart("dumpNativeHeap", LeakInfo(recs, capacity))

NextDump ==
    \/ OpenOutput
    \/ GetLeakInfo
    \/ WriteHeader
    \/ SortRecords
    \/ WriteRecord
    \/ FreeLeakInfo
    \/ WriteMaps
    \/ CloseOutput

SpecDump == InitDump /\ [][NextDump]_vars

\* The records of the comparator calls: every backtrace of MaxDepth addresses,
\* with nothing after it or with every further slot taken.
HeapRecords ==
    {Record(sz, 1, bt, fill) :
       sz \in {1, 2, SetFlag(1)}, bt \in [1 .. MaxDepth -> Addrs], fill \in {0, 1}}

InitCompare ==
    /\ Start(<<>>, FALSE)
    /\ \E r1 \in HeapRecords, r2 \in HeapRecords :
          /\ dpc = "compareHeapRecords"
          /\ malloc_leak = LeakInfo(<<r1, r2>>, BACKTRACE_SIZE)
          /\ info = malloc_leak.info
          /\ totalMemory = malloc_leak.totalMemory
          /\ backtraceSize = BACKTRACE_SIZE
          /\ infoSize = malloc_leak.infoSize
          /\ recordCount = 2
          /\ idx = 0
          /\ report = <<>>
          /\ fpOpen = FALSE
          /\ exception = NoException
          /\ in = ""
          /\ released = 0
          /\ slotsRead = 0
          /\ vrec1 = RecordAt(0, infoSize)
          /\ vrec2 = RecordAt(1, infoSize)
          /\ result = 0

SpecCompare == InitCompare /\ [][CompareRecords]_vars


(***************************************************************************)
(* android_os_Debug_getPssPid.  Its line buffer is a sequence of           *)
(* characters; NUL marks the end of the string in it.  The locals fp,      *)
(* line and pss are those of this function while it runs.                  *)
(***************************************************************************)
\* The cells of the line buffer in the model (char line[1024]).
LineSize == 24

\* !(*c < '0' || *c > '9')
IsDigit(c) == c \in {"0", "1", "2", "3", "4", "5", "6", "7", "8", "9"}

\* while (*c != 0 && (*c < '0' || *c > '9')) c++, from cell c of buf (from 1).
RECURSIVE SkipToDigit(_, _)
SkipToDigit(buf, c) ==
    IF c > Len(buf) \/ buf[c] = "NUL" \/ IsDigit(buf[c]) THEN c
    ELSE SkipToDigit(buf, c + 1)

\* atoi of the string at cell c of buf, with acc the value of the digits before c.
RECURSIVE atoi(_, _, _)
atoi(buf, c, acc) ==
    IF c > Len(buf) \/ ~IsDigit(buf[c]) THEN acc
    ELSE atoi(buf, c + 1,
              10 * acc + (CHOOSE d \in 0 .. 9 :
                             <<"0", "1", "2", "3", "4", "5", "6", "7", "8", "9">>[d + 1] = buf[c]))

\* fgets(line, 1024, fp) of the line l: its characters, then NUL; the cells
\* after that keep what they held.
fgets(buf, l) ==
    [i \in 1 .. Len(buf) |->
        IF i <= Len(l) THEN l[i] ELSE IF i = Len(l) + 1 THEN "NUL" ELSE buf[i]]

\* fopen of /proc/<pid>/smaps; on failure 0 is returned.
GetPssOpen ==
    /\ pc = "getPssPid"
    /\ pc' = IF openOk THEN "getPssPid_loop" ELSE "getPssPid_returned"
    /\ UNCHANGED <<inVars, fp, line, flagVars, metricVars, swappable_pss, addrVars, heapVars,
                   stats, hdr, blocks, outVars>>
    /\ UNCHANGED dumpVars

\* One turn of the loop: fgets, and the sums of the lines that begin with P.
GetPssLine ==
    /\ pc = "getPssPid_loop"
    /\ IF fp = Len(file)
         THEN /\ pc' = "getPssPid_returned"
              /\ UNCHANGED <<fp, line, pss, uss>>
         ELSE LET buf == fgets(line, file[fp + 1])
              IN  /\ fp' = fp + 1
                  /\ line' = buf
                  /\ pc' = pc
                  /\ IF buf[1] = "P"
                       THEN IF strncmp(buf, <<"P","s","s",":">>, 4) = 0
                              THEN /\ pss' = pss + atoi(buf, SkipToDigit(buf, 4 + 1), 0)
                                   /\ uss' = uss
                            ELSE IF \/ strncmp(buf, <<"P","r","i","v","a","t","e","_",
                                                      "C","l","e","a","n",":">>, 14) # 0
                                    \/ strncmp(buf, <<"P","r","i","v","a","t","e","_",
                                                      "D","i","r","t","y",":">>, 14) # 0
                              THEN /\ uss' = uss + atoi(buf, SkipToDigit(buf, 14 + 1), 0)
                                   /\ pss' = pss
                            ELSE UNCHANGED <<pss, uss>>
                       ELSE UNCHANGED <<pss, uss>>
    /\ UNCHANGED <<inVars, flagVars, size, resident, shared_clean, shared_dirty, private_clean,
                   private_dirty, referenced, swappable_pss, addrVars, heapVars,
                   stats, hdr, blocks, outVars>>
    /\ UNCHANGED dumpVars

\* The lines of the streams of getPssPid:
\*   Pss:       2 kB\n
\*   Private_Clean:  1 kB\n
\*   Private_Dirty:  4 kB\n
\*   Private_Hugetlb: 8 kB\n
\*   Size:      16 kB\n
\*   Pq\n
PssLines ==
    {<<"P","s","s",":"," "," "," "," "," "," "," ","2"," ","k","B","\n">>,
     <<"P","r","i","v","a","t","e","_","C","l","e","a","n",":"," "," ","1"," ","k","B","\n">>,
     <<"P","r","i","v","a","t","e","_","D","i","r","t","y",":"," "," ","4"," ","k","B","\n">>,
     <<"P","r","i","v","a","t","e","_","H","u","g","e","t","l","b",":"," ","8"," ","k","B","\n">>,
     <<"S","i","z","e",":"," "," "," "," "," "," ","1","6"," ","k","B","\n">>,
     <<"P","q","\n">>}

\* getPssPid starts on a stream of these lines, which may fail to open.  Its
\* line buffer is not initialised: it holds nothing, or what the stack held.
InitPss ==
    /\ \E f \in Streams(PssLines, MaxLines), ok \in BOOLEAN : file = f /\ openOk = ok
    /\ fp = 0
    /\ pc = "getPssPid"
    /\ line \in {[i \in 1 .. LineSize |-> "NUL"],
                 [i \in 1 .. LineSize |-> IF i \in {15, 16} THEN "7" ELSE "NUL"]}
    /\ pss = 0 /\ uss = 0
    /\ skip = FALSE /\ done = FALSE /\ is_swappable = FALSE
    /\ size = 0 /\ resident = 0 /\ swappable_pss = 0
    /\ shared_clean = 0 /\ shared_dirty = 0
    /\ private_clean = 0 /\ private_dirty = 0 /\ referenced = 0
    /\ start = 0 /\ end = 0 /\ prevEnd = 0 /\ name = <<>>
    /\ whichHeap = HEAP_UNKNOWN /\ subHeap = HEAP_UNKNOWN /\ prevHeap = HEAP_UNKNOWN
    /\ stats = ZeroStats
    /\ hdr = 0
    /\ blocks = <<>>
    /\ object = <<>>
    /\ otherArray = <<>>
    /\ NoDump

SpecPss == InitPss /\ [][GetPssOpen \/ GetPssLine]_vars

(***************************************************************************)
(* The vocabulary of the properties, stated on the stream itself.          *)
(***************************************************************************)
\* The header pattern: two hex addresses, then permissions, offset, device, inode.
WellFormedHeader(l) == l.t = "map" /\ l.addrs = 2 /\ l.tail

\* More than 30 characters, a dash at offset 8 and a blank at offset 17.
HeaderShaped(l) == l.t = "map" /\ l.long /\ l.w = 8

\* read_mapinfo has returned.
Parsed == openOk /\ pc \in {"fold", "report", "done", "done_no_array"}

\* read_mapinfo has returned and the totals are as it left them.
JustParsed == openOk /\ pc = "fold"

\* No block of stream f starts with a malformed header.
NoMalformedHeader(f) ==
    /\ f # <<>> => f[1].t = "map"
    /\ \A i \in DOMAIN f : f[i].t = "map" => WellFormedHeader(f[i])

\* The pss of the mapping whose header is line i of f: the value of its last
\* Pss line, 0 when it has none.
MappingPss(f, i) ==
    LET after == { j \in DOMAIN f : j > i /\ f[j].t = "map" }
        nxt == IF after = {} THEN Len(f) + 1
               ELSE CHOOSE j \in after : \A k \in after : j <= k
        own == { j \in DOMAIN f : j > i /\ j < nxt /\ ScanStat(f[j], "Pss") }
    IN  IF own = {} THEN 0
        ELSE f[CHOOSE j \in own : \A k \in own : k <= j].val

RECURSIVE StreamPssFrom(_, _)
StreamPssFrom(f, i) ==
    IF i > Len(f) THEN 0
    ELSE (IF f[i].t = "map" THEN MappingPss(f, i) ELSE 0) + StreamPssFrom(f, i + 1)

\* The sum of the pss of every mapping of stream f.
StreamPss(f) == StreamPssFrom(f, 1)

\* The sum of field k over heaps lo .. hi-1 of totals st.
RECURSIVE SumField(_, _, _, _)
SumField(st, k, lo, hi) ==
    IF lo >= hi THEN 0 ELSE StatField(st[lo], k) + SumField(st, k, lo + 1, hi)

\* C1: after read_mapinfo has parsed a stream in which no block has a malformed
\* header, the pss totals of the categories sum to the sum of the pss of every
\* mapping of the stream.
C1_PssConserved ==
    (JustParsed /\ NoMalformedHeader(file)) =>
        SumField(stats, 0, 0, NUM_EXCLUSIVE_HEAP) = StreamPss(file)

\* C2: the completion of a block whose header line is malformed (it fails the
\* header pattern) leaves every total of every category and sub-category as it
\* was, whatever statistic lines the block has and whatever blocks surround it.
C2_MalformedAddsNothing ==
    [][(pc = "block" /\ ~WellFormedHeader(file[hdr])) => stats' = stats]_vars

\* C3: in a stream whose first line is header-shaped, every header-shaped line
\* is the header of a block: when read_mapinfo has returned, the completed
\* blocks are the header-shaped lines, in stream order, and only the last of
\* them was completed at end of stream.
C3_BlockPerHeader ==
    (Parsed /\ file # <<>> /\ HeaderShaped(file[1])) =>
        LET H == { i \in DOMAIN file : HeaderShaped(file[i]) }
            n == Len(blocks)
        IN  /\ n = Cardinality(H)
            /\ { blocks[k].hdr : k \in 1 .. n } = H
            /\ \A k \in 1 .. (n - 1) :
                  blocks[k].hdr < blocks[k + 1].hdr /\ ~blocks[k].eof
            /\ blocks[n].eof

\* Three blocks, each ended by the header of the next, with a statistic line.
C3_Witness ==
    /\ Parsed /\ file # <<>> /\ HeaderShaped(file[1])
    /\ Len(blocks) = 3
    /\ \E i \in DOMAIN file : file[i].t = "stat"

\* C4: a completed, non-skipped block of a swappable-typed mapping with pss > 0
\* adds swappablePss = sharing * sharedClean + privateClean, with sharing the
\* proportion (pss - privateClean - privateDirty) / (sharedClean + sharedDirty),
\* when sharedClean + sharedDirty > 0 (the whole part of it, the total being an
\* integer), and privateClean when sharedClean + sharedDirty = 0.  It is stated
\* for the blocks whose pss covers their private pages, as the kernel's do.
C4_SwappableFormula ==
    \A k \in DOMAIN blocks :
        LET b == blocks[k]
            m == b.m
            shared == m.sharedClean + m.sharedDirty
        IN  (/\ ~b.skip /\ b.is_swappable /\ m.pss > 0
             /\ m.pss >= m.privateClean + m.privateDirty) =>
               IF shared > 0
                 THEN m.swappablePss =
                        (((m.pss - m.privateClean - m.privateDirty) * m.sharedClean)
                            \div shared) + m.privateClean
                 ELSE m.swappablePss = m.privateClean

\* C6: a non-skipped block adds its six metrics to its primary category, and to
\* its sub-category exactly when the primary category is HEAP_DALVIK or
\* HEAP_DALVIK_OTHER; every other total is left as it was.
C6_BlockAddsToItsHeaps ==
    [][(pc = "block" /\ ~skip) =>
          LET m == BlockMetrics(pss, swappable_pss', private_dirty, shared_dirty,
                                private_clean, shared_clean)
              managed == whichHeap \in {HEAP_DALVIK, HEAP_DALVIK_OTHER}
          IN  \A h \in Heaps :
                 stats'[h] = IF h = whichHeap \/ (managed /\ h = subHeap)
                               THEN AddStat(stats[h], m)
                               ELSE stats[h]
      ]_vars

\* A managed-runtime block and another block have both added non-zero metrics.
C6_Witness ==
    /\ \E k \in DOMAIN blocks :
          /\ blocks[k].whichHeap = HEAP_DALVIK /\ ~blocks[k].skip
          /\ blocks[k].m.pss > 0 /\ blocks[k].m.sharedClean > 0
          /\ stats[HEAP_DALVIK_LARGE].sharedClean > 0
    /\ \E k \in DOMAIN blocks :
          /\ blocks[k].whichHeap = HEAP_DALVIK /\ ~blocks[k].skip
          /\ blocks[k].m.privateDirty > 0
    /\ pc = "fold"

C6_WitnessOther ==
    /\ \E k \in DOMAIN blocks :
          /\ blocks[k].whichHeap = HEAP_SO /\ ~blocks[k].skip
          /\ blocks[k].m.pss > 0
    /\ stats[HEAP_DALVIK].pss > 0
    /\ pc = "fold"

\* C7: the fold adds the six totals of each of the 13 other primary categories
\* into HEAP_UNKNOWN and adds no sub-category; every other category and every
\* sub-category keeps its own totals and is reported with them, in enumeration
\* order; after the fold the pss of the three core categories sums to the pss
\* of the 16 primary categories before it.
C7_FoldAndReport ==
    [][/\ pc = "fold" =>
            /\ \A k \in 0 .. 5 :
                  StatField(stats'[HEAP_UNKNOWN], k) =
                      StatField(stats[HEAP_UNKNOWN], k)
                        + SumField(stats, k, NUM_CORE_HEAP, NUM_EXCLUSIVE_HEAP)
            /\ \A h \in Heaps \ {HEAP_UNKNOWN} : stats'[h] = stats[h]
            /\ SumField(stats', 0, 0, NUM_CORE_HEAP)
                  = SumField(stats, 0, 0, NUM_EXCLUSIVE_HEAP)
       /\ (pc = "report" /\ pc' = "done") =>
            /\ Len(otherArray') = 6 * (NUM_HEAP - NUM_CORE_HEAP)
            /\ \A h \in NUM_CORE_HEAP .. (NUM_HEAP - 1) : \A k \in 0 .. 5 :
                  otherArray'[6 * (h - NUM_CORE_HEAP) + k + 1] = StatField(stats[h], k)
      ]_vars

\* A report in which a shared object and a managed-runtime block, with its
\* sub-category, have been folded and listed.
C7_Witness ==
    /\ pc = "done"
    /\ stats[HEAP_SO].pss > 0 /\ stats[HEAP_SO].privateClean > 0
    /\ stats[HEAP_DALVIK_LARGE].pss > 0
    /\ object[HEAP_UNKNOWN].pss >= stats[HEAP_SO].pss
    /\ otherArray # <<>>

(***************************************************************************)
(* The rule list of the classifier, rule by rule: which names a rule       *)
(* matches and what it yields.  strict says whether a suffix rule needs a  *)
(* name longer than its suffix.                                            *)
(***************************************************************************)
BeginsWith(n, p) == Len(n) >= Len(p) /\ SubSeq(n, 1, Len(p)) = p

EndsWith(n, s) == Len(n) >= Len(s) /\ SubSeq(n, Len(n) - Len(s) + 1, Len(n)) = s

SuffixRule(n, s, strict) == EndsWith(n, s) /\ (strict => Len(n) > Len(s))

RuleMatches(r, n, strict) ==
    CASE r = 1 -> BeginsWith(n, S_heap)
      [] r = 2 -> BeginsWith(n, S_ashmem)
      [] r = 3 -> BeginsWith(n, S_anon_libc_malloc)
      [] r = 4 -> BeginsWith(n, S_stack)
      [] r = 5 -> BeginsWith(n, S_dev)
      [] r = 6 -> SuffixRule(n, S_so, strict)
      [] r = 7 -> SuffixRule(n, S_jar, strict)
      [] r = 8 -> SuffixRule(n, S_apk, strict)
      [] r = 9 -> SuffixRule(n, S_ttf, strict)
      [] r = 10 -> SuffixRule(n, S_dex, strict) \/ SuffixRule(n, S_odex, strict)
      [] r = 11 -> SuffixRule(n, S_oat, strict)
      [] r = 12 -> SuffixRule(n, S_art, strict)
      [] r = 13 -> BeginsWith(n, S_anon)
      [] r = 14 -> n # <<>>
      [] r = 15 -> n = <<>>

\* The lowest-numbered rule that matches name n.
FirstRule(n, strict) ==
    CHOOSE r \in 1 .. 15 :
        /\ RuleMatches(r, n, strict)
        /\ \A q \in 1 .. (r - 1) : ~RuleMatches(q, n, strict)

\* Rule 2: the category of a name under /dev/ashmem.
AshmemCategory(n) ==
    IF BeginsWith(n, S_dalvik)
      THEN IF \/ BeginsWith(n, S_LinearAlloc)
              \/ BeginsWith(n, S_jit_code_cache)
              \/ \E a \in {S_mark, S_live_bitmap, S_mark_bitmap, S_card_table,
                           S_allocation_stack, S_live_stack, S_imagespace,
                           S_bitmap, S_card_table2, S_mark_stack,
                           S_aux_structure} : BeginsWith(n, a)
             THEN HEAP_DALVIK_OTHER
             ELSE HEAP_DALVIK
    ELSE IF BeginsWith(n, S_CursorWindow) THEN HEAP_CURSOR
    ELSE IF BeginsWith(n, S_libc_malloc) THEN HEAP_NATIVE
    ELSE HEAP_ASHMEM

\* The category and the swappable flag rule r gives name n; adjacent says that
\* the mapping starts where a shared object mapping just before it ended.
RuleYields(r, n, adjacent) ==
    CASE r = 1 -> <<HEAP_NATIVE, FALSE>>
      [] r = 2 -> <<AshmemCategory(n), FALSE>>
      [] r = 3 -> <<HEAP_NATIVE, FALSE>>
      [] r = 4 -> <<HEAP_STACK, FALSE>>
      [] r = 5 -> <<HEAP_UNKNOWN_DEV, FALSE>>
      [] r = 6 -> <<HEAP_SO, TRUE>>
      [] r = 7 -> <<HEAP_JAR, TRUE>>
      [] r = 8 -> <<HEAP_APK, TRUE>>
      [] r = 9 -> <<HEAP_TTF, TRUE>>
      [] r = 10 -> <<HEAP_DEX, TRUE>>
      [] r = 11 -> <<HEAP_OAT, TRUE>>
      [] r = 12 -> <<HEAP_ART, TRUE>>
      [] r = 13 -> <<HEAP_UNKNOWN, FALSE>>
      [] r = 14 -> <<HEAP_UNKNOWN_MAP, FALSE>>
      [] r = 15 -> <<IF adjacent THEN HEAP_SO ELSE HEAP_UNKNOWN, FALSE>>

\* The header in the line buffer is well formed and has been classified.
Classified == pc \in {"stats", "block"} /\ WellFormedHeader(file[hdr])

\* The classified mapping starts where the block before it, a shared object, ended.
Adjacent == start = prevEnd /\ prevHeap = HEAP_SO

\* C5 as stated: the category and the swappable flag of a classified mapping
\* are those of the lowest-numbered rule its name matches, a suffix rule
\* matching every name that ends with the suffix.
C5_FirstMatchWins ==
    Classified =>
        <<whichHeap, is_swappable>> = RuleYields(FirstRule(name, FALSE), name, Adjacent)

\* C5 as amended: the same, a suffix rule (6 to 12) matching only the names that
\* end with its suffix and are longer than it.
C5_FirstMatchWinsLonger ==
    Classified =>
        <<whichHeap, is_swappable>> = RuleYields(FirstRule(name, TRUE), name, Adjacent)

\* A name under /dev/ that ends in .so has been classified by the prefix rule.
C5_Witness ==
    /\ Classified
    /\ BeginsWith(name, S_dev) /\ ~BeginsWith(name, S_ashmem) /\ EndsWith(name, S_so)
    /\ whichHeap = HEAP_UNKNOWN_DEV /\ ~is_swappable

(***************************************************************************)
(* The comparator call of the state: its two records.                      *)
(***************************************************************************)
Size1 == info.mem[vrec1]

Size2 == info.mem[vrec2]

\* Slot i (from 0) of the backtrace of the first and of the second record.
Bt1(i) == info.mem[vrec1 + 2 + i]

Bt2(i) == info.mem[vrec2 + 2 + i]

Slots == 0 .. (BACKTRACE_SIZE - 1)

Compared == dpc = "compared"

\* The first index in Stops, or BACKTRACE_SIZE when there is none.
FirstOf(Stops) ==
    IF Stops = {} THEN BACKTRACE_SIZE
    ELSE CHOOSE i \in Stops : \A j \in Stops : i <= j

\* The result of comparing the backtraces index by index, ascending, over the
\* indexes before stop: decided at the first index where they differ, and
\* equal when there is none.
Lexicographic(stop) ==
    LET d == FirstOf({i \in Slots : i < stop /\ Bt1(i) # Bt2(i)})
    IN  IF d >= stop THEN 0
        ELSE IF Bt1(d) < Bt2(d) THEN -1 ELSE 1

\* C8: of two compared records, the one whose size with the flag bit cleared is
\* larger sorts first, whatever the flag bits are.
C8_LargerClearedSizeFirst ==
    Compared =>
        /\ ClearFlag(Size1) > ClearFlag(Size2) => result < 0
        /\ ClearFlag(Size1) < ClearFlag(Size2) => result > 0

\* C9 as stated: for two records of equal size the result is that of comparing
\* the backtraces up to the first index where either has a zero entry.
C9_StopsAtEitherZero ==
    (Compared /\ Size1 = Size2) =>
        result = Lexicographic(FirstOf({i \in Slots : Bt1(i) = 0 \/ Bt2(i) = 0}))

\* C9 as amended: for two records of equal size word the result is that of
\* comparing the backtraces, as signed addresses, up to the first index where
\* both have a zero entry, so a backtrace that ends first is ordered against
\* the other by its zero.
C9_StopsAtCommonZero ==
    (Compared /\ Size1 = Size2) =>
        result = Lexicographic(FirstOf({i \in Slots : Bt1(i) = 0 /\ Bt2(i) = 0}))

\* Two records of equal size have been compared, the backtrace of the first
\* ending where the second goes on, and the first sorts first.
C9_Witness ==
    /\ Compared /\ Size1 = Size2
    /\ Bt1(0) = Bt2(0) /\ Bt1(0) # 0
    /\ Bt1(1) = 0 /\ Bt2(1) > 0
    /\ result = -1

(***************************************************************************)
(* The report of a dump that has returned.                                 *)
(***************************************************************************)
\* The place of an item in the order of the report.
Rank(item) ==
    CASE item.k = "Android Native Heap Dump v1.0" -> 1
      [] item.k = "Total memory" -> 2
      [] item.k = "Allocation records" -> 3
      [] item.k = "WARNING" -> 4
      [] item.k = "" -> 5
      [] item.k = "z" -> 6
      [] item.k = "MAPS" -> 7
      [] item.k = "maps" -> 8
      [] item.k = "Could not open" -> 8
      [] item.k = "END" -> 9
      [] OTHER -> 0

Count(k) == Cardinality({i \in DOMAIN report : report[i].k = k})

\* The dump has returned from a run on which leak information was supplied.
DumpedRecords == dpc = "returned" /\ ~info.null

\* The header, the total, the record count, the record lines, the listing and
\* the end marker come in this order, the first three once each and one line
\* for each record.
InOrder ==
    /\ \A i, j \in DOMAIN report : i < j => Rank(report[i]) <= Rank(report[j])
    /\ \A i \in DOMAIN report : Rank(report[i]) > 0
    /\ Count("Android Native Heap Dump v1.0") = 1
    /\ Count("Total memory") = 1
    /\ Count("Allocation records") = 1
    /\ Count("z") = recordCount
    /\ Count("MAPS") = 1

EndsWith_(k) == report # <<>> /\ report[Len(report)].k = k

\* C10 as stated: every run with leak information writes the parts of the
\* report in order, and the end marker last.
C10_OrderAndEndAlways ==
    DumpedRecords => (InOrder /\ EndsWith_("END") /\ Count("END") = 1)

\* C10 as amended: every run with leak information writes the parts of the
\* report in order; when the mapping listing is opened the end marker is
\* written last, and when it cannot be opened the line that says so is
\* written last, right after the MAPS line, and no end marker is written.
C10_OrderAndEndIfOpened ==
    DumpedRecords =>
        /\ InOrder
        /\ in = "open" => (EndsWith_("END") /\ Count("END") = 1 /\ Count("Could not open") = 0)
        /\ in = "NULL" => /\ EndsWith_("Could not open")
                          /\ report[Len(report) - 1].k = "MAPS"
                          /\ Count("END") = 0
        /\ in \in {"open", "NULL"}

\* A dump of MaxRecords records has returned, the listing copied and the end
\* marker written.
C10_Witness ==
    /\ DumpedRecords
    /\ recordCount = MaxRecords
    /\ in = "open"
    /\ Count("maps") > 0
    /\ EndsWith_("END")

(***************************************************************************)
(* The dump without and with leak information.                             *)
(***************************************************************************)
\* get_malloc_leak_info has nothing to hand out to the dump that is running.
NothingSupplied == dpc # "idle" /\ dpc # "compareHeapRecords" /\ malloc_leak.info.null

\* dumpNativeHeap has been entered and has come back.
Dumped == dpc = "fclose" \/ (dpc = "returned" /\ exception = NoException)

\* C11: when no leak information is supplied, the report is the guidance text
\* and nothing else (no header, no record line, no listing, no end marker),
\* and the dump never comes to sort or to release a buffer.
C11_GuidanceOnly ==
    NothingSupplied =>
        /\ dpc \notin {"header", "qsort", "records", "maps"}
        /\ released = 0
        /\ slotsRead = 0
        /\ info.null
        /\ [i \in DOMAIN report |-> report[i].k] =
              IF Dumped THEN <<"not available", "setprop", "stop", "start">> ELSE <<>>

\* A dump without leak information has returned, the guidance written.
C11_Witness ==
    /\ NothingSupplied
    /\ dpc = "returned"
    /\ exception = NoException
    /\ Len(report) = 4

\* C12: a dump that acquired a buffer has released it exactly once when it
\* returns, and once the buffer is released no step sorts it, reads a record
\* of it, writes a record line or releases it again.
C12_ReleasedOnce ==
    [][/\ (dpc' = "returned" /\ ~info'.null) => released' = 1
       /\ released >= 1 => /\ UNCHANGED <<info, idx, slotsRead, released>>
                           /\ Count("z")' = Count("z")
                           /\ dpc' \notin {"qsort", "records"}]_vars

\* A dump of MaxRecords records has returned by the path on which the listing
\* could not be opened, the buffer released once.
C12_Witness ==
    /\ dpc = "returned"
    /\ ~info.null
    /\ recordCount = MaxRecords
    /\ in = "NULL"
    /\ released = 1

(***************************************************************************)
(* Unnamed mappings.                                                       *)
(***************************************************************************)
\* The block before the header in the line buffer had a well-formed header,
\* was classified as a shared object and ends where this mapping starts.
AfterSharedObject ==
    /\ blocks # <<>>
    /\ LET b == blocks[Len(blocks)]
       IN  /\ WellFormedHeader(file[b.hdr])
           /\ b.whichHeap = HEAP_SO
           /\ file[b.hdr].end = start

\* C13: a mapping with an empty name is a shared object exactly when it starts
\* where the mapping of the block just before it ends and that block was
\* classified as a shared object; in every other case, a malformed block
\* before it included, it is Unknown.
C13_UnnamedAfterSharedObject ==
    (Classified /\ name = <<>>) =>
        whichHeap = IF AfterSharedObject THEN HEAP_SO ELSE HEAP_UNKNOWN

\* C14: the completion of a block whose name is classified by a rule other
\* than rules 6 to 12 leaves the swappablePss total of every category as it
\* was, whatever the pss, shared and private values of the block are.
C14_UnswappableAddsNothing ==
    [][(pc = "block" /\ ~skip /\ FirstRule(name, TRUE) \notin 6 .. 12) =>
          \A h \in Heaps : stats'[h].swappablePss = stats[h].swappablePss
      ]_vars

\* An unnamed mapping after a shared object has been added to HEAP_SO with a
\* pss, a shared and a private clean value above zero, and the swappablePss of
\* HEAP_SO is still what the shared object itself added.
C14_Witness ==
    /\ pc = "fold"
    /\ Len(blocks) = 2
    /\ blocks[1].m.swappablePss > 0
    /\ LET b == blocks[2]
       IN  /\ ~b.skip /\ b.whichHeap = HEAP_SO /\ file[b.hdr].name = <<>>
           /\ b.m.pss > 0 /\ b.m.sharedClean > 0 /\ b.m.privateClean > 0
    /\ stats[HEAP_SO].swappablePss = blocks[1].m.swappablePss

\* C15: a dump of leak information writes the warning line exactly when the
\* reported backtrace capacity is not BACKTRACE_SIZE, and neither the sort nor
\* the record loop reads a backtrace slot at or past the reported capacity.
C15_WarnsAndStaysInCapacity ==
    (dpc \in {"qsort", "records", "maps", "fclose", "returned"} /\ ~info.null) =>
        /\ Count("WARNING") = IF backtraceSize # BACKTRACE_SIZE THEN 1 ELSE 0
        /\ slotsRead <= backtraceSize

\* C16: the completion of a block lowers none of the six totals of any
\* category or sub-category.
C16_TotalsNeverDecrease ==
    [][pc = "block" =>
          \A h \in Heaps : \A k \in 0 .. 5 :
             StatField(stats'[h], k) >= StatField(stats[h], k)
      ]_vars

\* C17: when the stream cannot be opened, or is empty, the pass parses no
\* block and goes on to its report, every total of every category and
\* sub-category is zero throughout, and what the pass reports (the core fields,
\* and the array of the other categories when it is obtained) is zero.
C17_NothingReadReportsZero ==
    (~openOk \/ file = <<>>) =>
        /\ pc \in {"load_maps", "read_mapinfo", "fold", "report", "done", "done_no_array"}
        /\ blocks = <<>>
        /\ \A h \in Heaps : \A k \in 0 .. 5 : StatField(stats[h], k) = 0
        /\ pc \in {"done", "done_no_array"} =>
              /\ DOMAIN object = 0 .. (NUM_CORE_HEAP - 1)
              /\ \A h \in DOMAIN object : \A k \in 0 .. 5 : StatField(object[h], k) = 0
        /\ pc = "done" =>
              /\ Len(otherArray) = 6 * (NUM_HEAP - NUM_CORE_HEAP)
              /\ \A i \in DOMAIN otherArray : otherArray[i] = 0

\* A pass whose stream could not be opened has reported.
C17_Witness ==
    /\ ~openOk
    /\ pc = "done"
    /\ Len(otherArray) = 6 * (NUM_HEAP - NUM_CORE_HEAP)

\* A pass over an empty stream has reported.
C17_WitnessEmpty ==
    /\ openOk /\ file = <<>>
    /\ pc = "done"
    /\ Len(otherArray) = 6 * (NUM_HEAP - NUM_CORE_HEAP)

Raised == exception # NoException

\* C18: a failure is raised only by the checks of the output destination, one
\* for each way it can be unusable, and the dump that raised it has returned
\* with the buffer not asked for, nothing written, nothing read and nothing
\* released; a dump that got past the checks never raises one.
C18_FailureOnlyForOutput ==
    /\ Raised =>
          /\ dpc = "returned"
          /\ ~fpOpen
          /\ exception \in
                {[class |-> "NullPointerException", msg |-> "fd == null"],
                 [class |-> "RuntimeException", msg |-> "Invalid file descriptor"],
                 [class |-> "RuntimeException", msg |-> "dup() failed"],
                 [class |-> "RuntimeException", msg |-> "fdopen() failed"]}
          /\ info = NullInfo /\ infoSize = 0 /\ recordCount = 0
          /\ report = <<>>
          /\ in = ""
          /\ released = 0 /\ slotsRead = 0
    /\ (dpc = "returned" /\ ~Raised) => (~fpOpen /\ report # <<>>)
    /\ dpc \in {"get_malloc_leak_info", "header", "qsort", "records", "maps", "fclose"} =>
          (fpOpen /\ ~Raised)

\* A dump that was refused for its output destination.
C18_Witness ==
    /\ dpc = "returned"
    /\ exception = [class |-> "RuntimeException", msg |-> "dup() failed"]
    /\ ~malloc_leak.info.null

\* A dump with a capacity mismatch and an unreadable listing ended without failure.
C18_WitnessMismatch ==
    /\ dpc = "returned" /\ ~Raised
    /\ ~info.null /\ backtraceSize # BACKTRACE_SIZE
    /\ in = "NULL"

\* A dump with tracking disabled ended without failure.
C18_WitnessDisabled ==
    /\ dpc = "returned" /\ ~Raised
    /\ malloc_leak.info.null /\ Count("not available") = 1

\* The value the statistic lines of the block being completed give for key:
\* that of the last such line between the block's header and its end, 0 when
\* the block has none.
OwnMetric(key) ==
    LET last == IF done THEN Len(file) ELSE fp - 1
        own == { j \in (hdr + 1) .. last : ScanStat(file[j], key) }
    IN  IF own = {} THEN 0
        ELSE file[CHOOSE j \in own : \A k \in own : k <= j].val

\* C19: the completion of a non-skipped block adds to the totals of its primary
\* category the metrics its own statistic lines give, and 0 for a metric that
\* has no line in the block, whatever the earlier blocks of the stream held.
C19_OwnMetricsOnly ==
    [][(pc = "block" /\ ~skip) =>
          /\ stats'[whichHeap].pss = Add32(stats[whichHeap].pss, OwnMetric("Pss"))
          /\ stats'[whichHeap].privateDirty =
                Add32(stats[whichHeap].privateDirty, OwnMetric("Private_Dirty"))
          /\ stats'[whichHeap].sharedDirty =
                Add32(stats[whichHeap].sharedDirty, OwnMetric("Shared_Dirty"))
          /\ stats'[whichHeap].privateClean =
                Add32(stats[whichHeap].privateClean, OwnMetric("Private_Clean"))
          /\ stats'[whichHeap].sharedClean =
                Add32(stats[whichHeap].sharedClean, OwnMetric("Shared_Clean"))
      ]_vars

(***************************************************************************)
(* The comparator as an order.                                             *)
(***************************************************************************)
\* The results of the comparator on the records at x and y of the array m.
Results(m, x, y) == {c.r : c \in compareHeapRecords(m, x, y)}

\* The comparator puts the record at x of m before or level with the one at y.
NotAfter(m, x, y) == \A r \in Results(m, x, y) : r <= 0

\* The third records of the transitivity check: either flag bit, a backtrace
\* that is empty, that ends after one address or that has a negative address,
\* with nothing after it or with every further slot taken.
Thirds ==
    {Record(sz, 1, <<a, b>>, fill) :
       sz \in {1, SetFlag(1)}, a \in {0, 1}, b \in {-1, 0, 2}, fill \in {0, 1}}

\* The array of the state with record c after its two records, and c's pointer.
WithThird(c) == info.mem \o RecordWords(c, BACKTRACE_SIZE)

Third == RecordAt(2, infoSize)

\* The array of the state with v in every backtrace slot that comes after the
\* first zero slot of its record.
Refilled(v) ==
    [a \in DOMAIN info.mem |->
        LET s == (a - 1) % infoSize
            rec == a - s
        IN  IF s >= 2 /\ \E j \in 2 .. (s - 1) : info.mem[rec + j] = 0
              THEN v ELSE info.mem[a]]

\* C20: the comparator gives 0 for a record against itself, opposite signs for
\* the two orders of a pair, and is transitive over the third records; the
\* slots after the first zero slot of a record do not change its results.
C20_TotalOrder ==
    Compared =>
        /\ Results(info.mem, vrec1, vrec1) = {0}
        /\ Results(info.mem, vrec2, vrec2) = {0}
        /\ result \in {-1, 0, 1}
        /\ Results(info.mem, vrec2, vrec1) = {-result}
        /\ \A c \in Thirds :
              (result <= 0 /\ NotAfter(WithThird(c), vrec2, Third))
                  => NotAfter(WithThird(c), vrec1, Third)
        /\ \A v \in Addrs : Results(Refilled(v), vrec1, vrec2) = {result}

\* Two records that differ only after the first zero slot of their backtraces
\* have compared level, and a third one comes after both.
C20_Witness ==
    /\ Compared /\ result = 0
    /\ Size1 = Size2
    /\ Bt1(0) = 0 /\ Bt2(0) = 0
    /\ Bt1(1) # Bt2(1) /\ Bt1(2) # Bt2(2)
    /\ \E c \in Thirds :
          /\ Results(WithThird(c), vrec2, Third) = {-1}
          /\ Results(WithThird(c), vrec1, Third) = {-1}

\* Two records of equal size whose backtraces differ have been compared, and
\* the comparator is asked about a third between them.
C20_WitnessChain ==
    /\ Compared /\ result = -1
    /\ Size1 = Size2 /\ Bt1(0) # 0
    /\ \E c \in Thirds :
          /\ c.size = Size1
          /\ Results(WithThird(c), vrec2, Third) = {-1}
          /\ Results(WithThird(c), vrec1, Third) = {-1}

\* C21: read_mapinfo returns for every stream that was opened, having read all
\* of it; every step either leaves the stream position and the line buffer
\* alone or reads the next line of the stream into the buffer; and the one line
\* held for the head of the parse loop is the last line read.
C21_SingleForwardPass ==
    /\ [][\/ (fp' = fp /\ line' = line)
          \/ (fp < Len(file) /\ fp' = fp + 1 /\ line' = file[fp'])]_vars
    /\ [](pc = "header" => (fp \in DOMAIN file /\ line = file[fp]))
    /\ [](Parsed => fp = Len(file))
    /\ (openOk => <>Parsed)

\* A stream of MaxLines lines with two blocks has been read to its end.
C21_Witness ==
    /\ Parsed
    /\ Len(file) = MaxLines /\ fp = MaxLines
    /\ Len(blocks) = 2

(***************************************************************************)
(* getPssPid.                                                              *)
(***************************************************************************)
\* The number a line gives: the value of its first run of digits, 0 when it
\* has none.
NumberOf(l) == atoi(l, SkipToDigit(l, 1), 0)

\* The line the next turn of getPssPid's loop reads.
NextPssLine == file[fp + 1]

\* C22: a turn of the loop of getPssPid that reads a line beginning with P adds
\* the line's number to the pss total alone when the line begins with "Pss:",
\* and to the private-usage total alone for every other line; a line that does
\* not begin with P adds nothing.
C22_EveryOtherPLineIsPrivate ==
    [][(pc = "getPssPid_loop" /\ fp < Len(file)) =>
          IF NextPssLine[1] # "P"
            THEN pss' = pss /\ uss' = uss
          ELSE IF Take(NextPssLine, 4) = <<"P","s","s",":">>
            THEN pss' = pss + NumberOf(NextPssLine) /\ uss' = uss
          ELSE pss' = pss /\ uss' = uss + NumberOf(NextPssLine)
      ]_vars

(***************************************************************************)
(* The sub-heaps of the managed-runtime heaps.                             *)
(***************************************************************************)
\* The sum of field k of the totals of the heaps of sequence hs.
RECURSIVE SumOver(_, _)
SumOver(hs, k) ==
    IF hs = <<>> THEN 0 ELSE Add32(StatField(stats[Head(hs)], k), SumOver(Tail(hs), k))

\* C23: once a stream is parsed, for each of the six metrics the totals of
\* HEAP_DALVIK_NORMAL and HEAP_DALVIK_LARGE sum to the total of HEAP_DALVIK and
\* those of HEAP_DALVIK_LINEARALLOC, HEAP_DALVIK_ACCOUNTING and
\* HEAP_DALVIK_CODE_CACHE sum to the total of HEAP_DALVIK_OTHER; every block of
\* HEAP_DALVIK has one of the first two as its sub-heap and every block of
\* HEAP_DALVIK_OTHER one of the last three, and HEAP_UNKNOWN has grown by the
\* metrics of the blocks whose heap it is and of no other block.
C23_SubHeapsPartition ==
    Parsed =>
        /\ \A k \in 0 .. 5 :
              /\ SumOver(<<HEAP_DALVIK_NORMAL, HEAP_DALVIK_LARGE>>, k)
                    = StatField(stats[HEAP_DALVIK], k)
              /\ SumOver(<<HEAP_DALVIK_LINEARALLOC, HEAP_DALVIK_ACCOUNTING,
                           HEAP_DALVIK_CODE_CACHE>>, k)
                    = StatField(stats[HEAP_DALVIK_OTHER], k)
        /\ \A b \in DOMAIN blocks :
              /\ (~blocks[b].skip /\ blocks[b].whichHeap = HEAP_DALVIK) =>
                    blocks[b].subHeap \in {HEAP_DALVIK_NORMAL, HEAP_DALVIK_LARGE}
              /\ (~blocks[b].skip /\ blocks[b].whichHeap = HEAP_DALVIK_OTHER) =>
                    blocks[b].subHeap \in {HEAP_DALVIK_LINEARALLOC, HEAP_DALVIK_ACCOUNTING,
                                           HEAP_DALVIK_CODE_CACHE}
        /\ pc = "fold" =>
              \A k \in 0 .. 5 :
                 StatField(stats[HEAP_UNKNOWN], k) =
                    LET RECURSIVE Own(_)
                        Own(b) == IF b = 0 THEN 0
                                  ELSE Add32(Own(b - 1),
                                             IF ~blocks[b].skip
                                                /\ blocks[b].whichHeap = HEAP_UNKNOWN
                                               THEN StatField(blocks[b].m, k) ELSE 0)
                    IN  Own(Len(blocks))

\* A parsed stream whose last block is an accounting mapping of the managed
\* runtime that has added a pss.
C23_Witness ==
    /\ Parsed
    /\ blocks # <<>>
    /\ blocks[Len(blocks)].whichHeap = HEAP_DALVIK_OTHER
    /\ blocks[Len(blocks)].subHeap = HEAP_DALVIK_ACCOUNTING
    /\ stats[HEAP_DALVIK_ACCOUNTING].pss > 0

\* C24: once a stream is parsed, every line of it that the header scan accepts
\* (both addresses converted) is the header of a completed block, wherever in
\* the stream it stands.
C24_AcceptedHeaderIsBoundary ==
    Parsed =>
        \A i \in DOMAIN file :
           ScanHeader(file[i]).n = 2 => \E b \in DOMAIN blocks : blocks[b].hdr = i

=============================================================================
